---------------------------- MODULE Spec2Model ----------------------------
(***************************************************************************)
(* The sanitation + ingestion reconciliation pipeline of the event         *)
(* aggregation service: events/sanitation.py, the venue fetcher of         *)
(* events/services/google_places.py, the Event model, and the two          *)
(* ingestion callers (the admin view and the ingest_events command);       *)
(* the pagination of the event list API (events/pagination.py); and the    *)
(* AI chat's token accounting (events/chat_views.py, chat_models.py).      *)
(*                                                                         *)
(* Python values are modelled as sequences of tokens.  A str is the        *)
(* sequence of its characters (one-character strings).  Every other        *)
(* object is a one-element sequence holding a tag token of more than one   *)
(* character: None, an int, a dict, a datetime.  A dict with string keys   *)
(* (a raw venue, a sanitized record, the defaults of an upsert) is a TLA+  *)
(* function whose DOMAIN is its key set, so that a missing key is          *)
(* different from a key holding None.                                      *)
(*                                                                         *)
(* A number that parse_date may be given is <<"number", m>>: the int or    *)
(* float m * 1000 (an integer of TLC has 32 bits, a timestamp in           *)
(* milliseconds has 41).  The datetime of a Unix timestamp is              *)
(* <<"datetime", m, e>>: the instant m * 10^e seconds after the epoch,     *)
(* with e = 3 whenever that is possible.                                   *)
(***************************************************************************)
EXTENDS Integers, Sequences, FiniteSets, TLC

None == <<"None">>
Int5 == <<"int:5">>
EmptyDict == <<"dict:{}">>
Payload1 == <<"dict:place1">>
Payload2 == <<"dict:place2">>
Datetime1 == <<"datetime:2024-12-17T10:00">>
Date1 == <<"date:2024-12-17">>
Datetime1Midnight == <<"datetime:2024-12-17T00:00">>
FloatInf == <<"float:inf">>
FloatNegInf == <<"float:-inf">>
FloatNan == <<"float:nan">>
Float1e300 == <<"float:1e300">>
IntTenTo400 == <<"int:10**400">>

\* Tag tokens of the non-str objects of the model.
ObjectTokens == {"None", "int:5", "dict:{}", "dict:place1", "dict:place2",
                 "datetime:2024-12-17T10:00", "date:2024-12-17",
                 "datetime:2024-12-17T00:00", "float:inf", "float:-inf",
                 "float:nan", "float:1e300", "int:10**400"}

\* The int or float m * 1000.
Thousands(m) == <<"number", m>>

IsThousands(v) == Len(v) = 2 /\ v[1] = "number"

IsTimestampDatetime(v) == Len(v) = 3 /\ v[1] = "datetime"

IsStr(v) ==
  /\ ~IsThousands(v)
  /\ ~IsTimestampDatetime(v)
  /\ \A i \in DOMAIN v : v[i] \notin ObjectTokens

IsDatetime(v) ==
  v \in {Datetime1, Datetime1Midnight} \/ IsTimestampDatetime(v)

\* Python truthiness: `not v` holds of None, '' and {}.
Falsy(v) == v = <<>> \/ v = None \/ v = EmptyDict \/ v = Thousands(0)

\* str(v): a str is itself, an int is its decimal digits.
StrOf(v) == IF IsStr(v) THEN v ELSE IF v = Int5 THEN <<"5">> ELSE v

\* d.get(k, default)
Get(d, k, default) == IF k \in DOMAIN d THEN d[k] ELSE default

Min(a, b) == IF a <= b THEN a ELSE b
Max(a, b) == IF a >= b THEN a ELSE b

\* s[:n] of Python, a negative n counting from the end.
SliceTo(s, n) ==
  IF n >= 0 THEN SubSeq(s, 1, Min(n, Len(s)))
  ELSE SubSeq(s, 1, Max(0, Len(s) + n))

StartsWith(s, p) == Len(s) >= Len(p) /\ SubSeq(s, 1, Len(p)) = p

\* `k in s` for two strs.
Contains(s, k) ==
  \E i \in 1..(Len(s) - Len(k) + 1) : SubSeq(s, i, i + Len(k) - 1) = k

Johannesburg == <<"J", "o", "h", "a", "n", "n", "e", "s", "b", "u", "r", "g">>
Pretoria == <<"P", "r", "e", "t", "o", "r", "i", "a">>

\* CITY_NAME_MAPPINGS in its source order: <<alias, canonical city>>.
CITY_NAME_MAPPINGS ==
  << <<<<"j", "o", "h", "a", "n", "n", "e", "s", "b", "u", "r", "g">>, Johannesburg>>,
     <<<<"j", "h", "b">>, Johannesburg>>,
     <<<<"j", "o", "b", "u", "r", "g">>, Johannesburg>>,
     <<<<"j", "o", "'", "b", "u", "r", "g">>, Johannesburg>>,
     <<<<"j", "o", "z", "i">>, Johannesburg>>,
     <<<<"e", "g", "o", "l", "i">>, Johannesburg>>,
     <<<<"j", "o", "h", "a", "n", "n", "e", "s", "b", "e", "r", "g">>, Johannesburg>>,
     <<<<"j", "o", "h", "a", "n", "n", "e", "s", "b", "u", "r", "g", "o">>, Johannesburg>>,
     <<<<"g", "a", "u", "t", "e", "n", "g">>, Johannesburg>>,
     <<<<"s", "a", "n", "d", "t", "o", "n">>, Johannesburg>>,
     <<<<"r", "o", "s", "e", "b", "a", "n", "k">>, Johannesburg>>,
     <<<<"s", "o", "w", "e", "t", "o">>, Johannesburg>>,
     <<<<"m", "i", "d", "r", "a", "n", "d">>, Johannesburg>>,
     <<<<"f", "o", "u", "r", "w", "a", "y", "s">>, Johannesburg>>,
     <<<<"r", "a", "n", "d", "b", "u", "r", "g">>, Johannesburg>>,
     <<<<"r", "o", "o", "d", "e", "p", "o", "o", "r", "t">>, Johannesburg>>,
     <<<<"k", "e", "m", "p", "t", "o", "n", " ", "p", "a", "r", "k">>, Johannesburg>>,
     <<<<"b", "o", "k", "s", "b", "u", "r", "g">>, Johannesburg>>,
     <<<<"b", "e", "n", "o", "n", "i">>, Johannesburg>>,
     <<<<"a", "l", "b", "e", "r", "t", "o", "n">>, Johannesburg>>,
     <<<<"p", "r", "e", "t", "o", "r", "i", "a">>, Pretoria>>,
     <<<<"p", "t", "a">>, Pretoria>>,
     <<<<"t", "s", "h", "w", "a", "n", "e">>, Pretoria>>,
     <<<<"c", "i", "t", "y", " ", "o", "f", " ", "t", "s", "h", "w", "a", "n", "e">>, Pretoria>>,
     <<<<"h", "a", "t", "f", "i", "e", "l", "d">>, Pretoria>>,
     <<<<"m", "e", "n", "l", "y", "n">>, Pretoria>>,
     <<<<"c", "e", "n", "t", "u", "r", "i", "o", "n">>, Pretoria>>,
     <<<<"b", "r", "o", "o", "k", "l", "y", "n">>, Pretoria>>,
     <<<<"a", "r", "c", "a", "d", "i", "a">>, Pretoria>>,
     <<<<"s", "u", "n", "n", "y", "s", "i", "d", "e">>, Pretoria>> >>

LowerCase == <<"a", "b", "c", "d", "e", "f", "g", "h", "i", "j", "k", "l", "m", "n", "o", "p", "q", "r", "s", "t", "u", "v", "w", "x", "y", "z">>
UpperCase == <<"A", "B", "C", "D", "E", "F", "G", "H", "I", "J", "K", "L", "M", "N", "O", "P", "Q", "R", "S", "T", "U", "V", "W", "X", "Y", "Z">>

IndexIn(seq, c) == CHOOSE i \in DOMAIN seq : seq[i] = c
IsUpperChar(c) == \E i \in DOMAIN UpperCase : UpperCase[i] = c
IsLowerChar(c) == \E i \in DOMAIN LowerCase : LowerCase[i] = c
IsCased(c) == IsUpperChar(c) \/ IsLowerChar(c)
LowerChar(c) == IF IsUpperChar(c) THEN LowerCase[IndexIn(UpperCase, c)] ELSE c
UpperChar(c) == IF IsLowerChar(c) THEN UpperCase[IndexIn(LowerCase, c)] ELSE c

\* str.lower()
Lower(s) == [i \in DOMAIN s |-> LowerChar(s[i])]

\* str.title(): a cased character is upper-cased after an uncased one (or at
\* the start) and lower-cased after a cased one.
Title(s) ==
  [i \in DOMAIN s |->
     IF i > 1 /\ IsCased(s[i - 1]) THEN LowerChar(s[i]) ELSE UpperChar(s[i])]

\* The whitespace of str.strip() and of the regex class \s.
Whitespace == {" ", "\t", "\n", "\r", "\f"}

RECURSIVE LStrip(_)
LStrip(s) ==
  IF s # <<>> /\ s[1] \in Whitespace THEN LStrip(Tail(s)) ELSE s

RECURSIVE RStrip(_)
RStrip(s) ==
  IF s # <<>> /\ s[Len(s)] \in Whitespace
  THEN RStrip(SubSeq(s, 1, Len(s) - 1)) ELSE s

\* str.strip()
Strip(s) == RStrip(LStrip(s))

(***************************************************************************)
(* RULE 1: city name standardization                                       *)
(***************************************************************************)

\* FirstAliasIn scanning the table from its end.
RECURSIVE FirstAliasIn_from_the_end(_, _)
FirstAliasIn_from_the_end(s, i) ==
  IF i > Len(CITY_NAME_MAPPINGS) THEN None
  ELSE IF Contains(s, CITY_NAME_MAPPINGS[Len(CITY_NAME_MAPPINGS) + 1 - i][1])
  THEN CITY_NAME_MAPPINGS[Len(CITY_NAME_MAPPINGS) + 1 - i][2]
  ELSE FirstAliasIn_from_the_end(s, i + 1)

\* The canonical city of the first alias, in table order, contained in s;
\* None when no alias is.
RECURSIVE FirstAliasIn(_, _)
FirstAliasIn(s, i) ==
  IF i > Len(CITY_NAME_MAPPINGS) THEN None
  ELSE IF Contains(s, CITY_NAME_MAPPINGS[i][1]) THEN CITY_NAME_MAPPINGS[i][2]
  ELSE FirstAliasIn(s, i + 1)

\* city.lower() of a truthy object that is no str raises AttributeError.
standardize_city_name_raises(city) == ~Falsy(city) /\ ~IsStr(city)

\* standardize_city_name matching the aliases without lower-casing.
standardize_city_name_case_sensitive(city) ==
  IF Falsy(city) THEN None
  ELSE LET normalized == Strip(city)
       IN  IF FirstAliasIn(normalized, 1) # None
           THEN FirstAliasIn(normalized, 1)
           ELSE Title(Strip(city))

\* standardize_city_name returning an unmapped city trimmed only.
standardize_city_name_untitled(city) ==
  IF Falsy(city) THEN None
  ELSE IF FirstAliasIn(Strip(Lower(city)), 1) # None
  THEN FirstAliasIn(Strip(Lower(city)), 1)
  ELSE Strip(city)

standardize_city_name(city) ==
  IF Falsy(city) THEN None
  ELSE LET normalized == Strip(Lower(city))
       IN  IF \E i \in DOMAIN CITY_NAME_MAPPINGS :
                 CITY_NAME_MAPPINGS[i][1] = normalized
           THEN CITY_NAME_MAPPINGS[
                  CHOOSE i \in DOMAIN CITY_NAME_MAPPINGS :
                     CITY_NAME_MAPPINGS[i][1] = normalized][2]
           ELSE IF FirstAliasIn(normalized, 1) # None
           THEN FirstAliasIn(normalized, 1)
           ELSE Title(Strip(city))

extract_city_from_address_raises(address) ==
  ~Falsy(address) /\ ~IsStr(address)

extract_city_from_address(address) ==
  IF Falsy(address) THEN None ELSE FirstAliasIn(Lower(address), 1)

(***************************************************************************)
(* RULE 2: date parsing                                                    *)
(***************************************************************************)

\* isinstance(date_input, (int, float))
IsNumber(v) ==
  IsThousands(v)
    \/ v \in {Int5, FloatInf, FloatNegInf, FloatNan, Float1e300, IntTenTo400}

\* date_input > 1e12, the threshold of the milliseconds.
ExceedsMillisThreshold(v) ==
  IF IsThousands(v) THEN v[2] > 1000000000
  ELSE v \in {FloatInf, Float1e300, IntTenTo400}

\* The timestamps, in thousands of seconds, of the years 1 to 9999.
MinTimestampThousands == -62135596
MaxTimestampThousands == 253402300

\* The datetime m * 10^e seconds after the epoch.
TimestampDatetime(m, e) ==
  IF e = 0 /\ m % 1000 = 0 THEN <<"datetime", m \div 1000, 3>>
  ELSE <<"datetime", m, e>>

\* What the numeric branch ends with: the exception that the division by
\* 1000 or datetime.fromtimestamp raises, or "none".  An int too large for
\* a float, an infinity and a float beyond the platform's time_t raise
\* OverflowError; a NaN and a year outside 1..9999 raise ValueError.
timestamp_exception(v) ==
  IF v \in {FloatInf, FloatNegInf, Float1e300, IntTenTo400}
  THEN "OverflowError"
  ELSE IF v = FloatNan THEN "ValueError"
  ELSE IF v = Int5 THEN "none"
  ELSE IF ExceedsMillisThreshold(v) THEN "none"
  ELSE IF v[2] < MinTimestampThousands \/ v[2] > MaxTimestampThousands
  THEN "ValueError"
  ELSE "none"

\* datetime.fromtimestamp of the number, divided by 1000 when it exceeds
\* the threshold.
timestamp_datetime(v) ==
  IF v = Int5 THEN TimestampDatetime(5, 0)
  ELSE IF ExceedsMillisThreshold(v) THEN TimestampDatetime(v[2], 0)
  ELSE TimestampDatetime(v[2], 3)

\* The one date string of the model that dateutil parses.
IsoDate1 == <<"2", "0", "2", "4", "-", "1", "2", "-", "1", "7">>

\* date_parser.parse(date_str, dayfirst=True, fuzzy=True): the datetime,
\* or None for a ParserError.
DateutilParse(date_str) ==
  IF date_str = IsoDate1 THEN Datetime1Midnight ELSE None

\* The exception parse_date lets out, or "none": the numeric branch catches
\* ValueError and OSError only.
parse_date_raises(date_input) ==
  IF date_input = None \/ IsDatetime(date_input) \/ date_input = Date1
  THEN "none"
  ELSE IF IsNumber(date_input)
  THEN IF timestamp_exception(date_input) \in {"ValueError", "OSError", "none"}
       THEN "none" ELSE timestamp_exception(date_input)
  ELSE "none"

parse_date(date_input, default) ==
  IF date_input = None THEN default
  ELSE IF IsDatetime(date_input) THEN date_input
  ELSE IF date_input = Date1 THEN Datetime1Midnight
  ELSE IF IsNumber(date_input)
  THEN IF timestamp_exception(date_input) = "none"
       THEN timestamp_datetime(date_input) ELSE default
  ELSE IF IsStr(date_input)
  THEN IF Strip(date_input) = <<>> THEN default
       ELSE IF DateutilParse(Strip(date_input)) = None THEN default
       ELSE DateutilParse(Strip(date_input))
  ELSE default

(***************************************************************************)
(* RULE 3: text cleaning                                                   *)
(***************************************************************************)

\* SPECIAL_CHARS_PATTERN, of which the form feed is the one character a
\* TLA+ string can spell.
ControlChars == {"\f"}

IsNotControl(c) == c \notin ControlChars

\* In a str that starts with "<": the index of the ">" closing a match of
\* HTML_TAG_PATTERN (<[^>]+>) at position 1, or 0 when there is no match.
TagEnd(s) ==
  IF \E j \in 2..Len(s) : s[j] = ">"
  THEN LET j == CHOOSE j \in 2..Len(s) :
                   s[j] = ">" /\ \A k \in 2..(j - 1) : s[k] # ">"
       IN  IF j >= 3 THEN j ELSE 0
  ELSE 0

\* HTML_TAG_PATTERN.sub(' ', s)
RECURSIVE StripTags(_)
StripTags(s) ==
  IF s = <<>> THEN <<>>
  ELSE IF s[1] = "<" /\ TagEnd(s) > 0
  THEN <<" ">> \o StripTags(SubSeq(s, TagEnd(s) + 1, Len(s)))
  ELSE <<s[1]>> \o StripTags(Tail(s))

\* The named character references of the model: amp, lt and gt, which
\* html.unescape also accepts without the closing semicolon.
EntityNames == << <<"a", "m", "p">>, <<"l", "t">>, <<"g", "t">> >>
EntityChars == << "&", "<", ">" >>

IsEntity(n) == \E i \in DOMAIN EntityNames : EntityNames[i] = n
EntityChar(n) == EntityChars[CHOOSE i \in DOMAIN EntityNames : EntityNames[i] = n]

\* The characters that end the name of a character reference.
NameStop == {"\t", "\n", "\f", " ", "<", "&", "#", ";"}

\* The longest prefix of s, of at most 32 characters, free of NameStop.
RECURSIVE NameRun(_, _)
NameRun(s, n) ==
  IF s = <<>> \/ n = 0 \/ s[1] \in NameStop THEN <<>>
  ELSE <<s[1]>> \o NameRun(Tail(s), n - 1)

\* The replacement of the reference "&" + tok (tok with its ";" if any).
RECURSIVE LongestEntityPrefix(_, _)
LongestEntityPrefix(tok, x) ==
  IF x < 2 THEN <<"&">> \o tok
  ELSE IF IsEntity(SubSeq(tok, 1, x))
  THEN <<EntityChar(SubSeq(tok, 1, x))>> \o SubSeq(tok, x + 1, Len(tok))
  ELSE LongestEntityPrefix(tok, x - 1)

ReplaceCharref(run, semi) ==
  IF IsEntity(run) THEN <<EntityChar(run)>>
  ELSE LongestEntityPrefix(IF semi THEN Append(run, ";") ELSE run,
                           (IF semi THEN Len(run) + 1 ELSE Len(run)) - 1)

\* html.unescape(s): one left-to-right pass, the replaced text is not
\* scanned again.
RECURSIVE Unescape(_)
Unescape(s) ==
  IF s = <<>> THEN <<>>
  ELSE IF s[1] = "&" /\ NameRun(Tail(s), 32) # <<>>
  THEN LET run == NameRun(Tail(s), 32)
           semi == Len(s) > Len(run) + 1 /\ s[Len(run) + 2] = ";"
           used == 1 + Len(run) + (IF semi THEN 1 ELSE 0)
       IN  ReplaceCharref(run, semi) \o Unescape(SubSeq(s, used + 1, Len(s)))
  ELSE <<s[1]>> \o Unescape(Tail(s))

\* MULTIPLE_SPACES_PATTERN.sub(' ', s)
RECURSIVE CollapseWhitespace(_)
CollapseWhitespace(s) ==
  IF s = <<>> THEN <<>>
  ELSE IF s[1] \in Whitespace
  THEN <<" ">> \o CollapseWhitespace(LStrip(s))
  ELSE <<s[1]>> \o CollapseWhitespace(Tail(s))

Ellipsis == <<".", ".", ".">>

\* clean_text with its flags at their defaults, as every caller leaves them.
\* maxLength = 0 stands for max_length=None.
clean_text(text, maxLength) ==
  IF Falsy(text) THEN <<>>
  ELSE LET result == Strip(CollapseWhitespace(Unescape(StripTags(
                        SelectSeq(StrOf(text), IsNotControl)))))
       IN  IF maxLength # 0 /\ Len(result) > maxLength
           THEN SliceTo(result, maxLength - 3) \o Ellipsis
           ELSE result

TitleMaxLength == 500
DescriptionMaxLength == 5000
VenueNameMaxLength == 500
CategoryMaxLength == 200
AddressMaxLength == 500

clean_title(title) == clean_text(title, TitleMaxLength)

clean_description(description) == clean_text(description, DescriptionMaxLength)

(***************************************************************************)
(* RULE 4: URL validation                                                  *)
(***************************************************************************)

HttpPrefix == <<"h", "t", "t", "p", ":", "/", "/">>
HttpsPrefix == <<"h", "t", "t", "p", "s", ":", "/", "/">>
SlashSlash == <<"/", "/">>

\* The first index of a character of set cs in s, or Len(s) + 1.
FirstIndexOf(s, cs) ==
  IF \E i \in DOMAIN s : s[i] \in cs
  THEN CHOOSE i \in DOMAIN s : s[i] \in cs /\ \A k \in 1..(i - 1) : s[k] \notin cs
  ELSE Len(s) + 1

SchemeChars == {"+", "-", ".", "0", "1", "2", "3", "4", "5", "6", "7", "8", "9"}

\* urlparse(url).scheme: the lower-cased text before the first ":", when it
\* starts with a letter and holds only scheme characters.
UrlScheme(url) ==
  LET c == FirstIndexOf(url, {":"})
  IN  IF c > 1 /\ c <= Len(url) /\ IsCased(url[1])
         /\ \A i \in 1..(c - 1) : IsCased(url[i]) \/ url[i] \in SchemeChars
      THEN Lower(SubSeq(url, 1, c - 1))
      ELSE <<>>

\* urlparse(url).netloc: after "<scheme>://", up to the next "/", "?" or "#".
UrlNetloc(url) ==
  LET rest == SubSeq(url, Len(UrlScheme(url)) + 2, Len(url))
  IN  IF UrlScheme(url) # <<>> /\ StartsWith(rest, SlashSlash)
      THEN LET after == SubSeq(rest, 3, Len(rest))
           IN  SubSeq(after, 1, FirstIndexOf(after, {"/", "?", "#"}) - 1)
      ELSE <<>>

\* validators.url(url) of the optional validators library, on the URLs of
\* the model: no whitespace anywhere, and a dotted host name.
ValidatorsUrl(url) ==
  /\ \A i \in DOMAIN url : url[i] \notin Whitespace
  /\ LET host == UrlNetloc(url)
     IN  /\ Len(host) >= 3
         /\ \E i \in 2..(Len(host) - 1) : host[i] = "."
         /\ \A i \in DOMAIN host : IsCased(host[i]) \/ host[i] \in {".", "-"}

IsNotTabOrNewline(c) == c \notin {"\t", "\n", "\r"}

\* urlunparse(urlparse(url)): urlsplit drops tabs and newlines.
UrlUnparse(url) == SelectSeq(url, IsNotTabOrNewline)

validate_and_clean_url(url, hasValidators) ==
  IF Falsy(url) THEN <<>>
  ELSE LET stripped == Strip(StrOf(url))
           full == IF ~(StartsWith(stripped, HttpPrefix)
                        \/ StartsWith(stripped, HttpsPrefix)
                        \/ StartsWith(stripped, SlashSlash))
                   THEN HttpsPrefix \o stripped
                   ELSE IF StartsWith(stripped, SlashSlash)
                   THEN <<"h", "t", "t", "p", "s", ":">> \o stripped
                   ELSE stripped
       IN  IF stripped = <<>> THEN <<>>
           ELSE IF UrlScheme(full) = <<>> \/ UrlNetloc(full) = <<>> THEN <<>>
           ELSE IF UrlScheme(full) \notin {<<"h", "t", "t", "p">>,
                                           <<"h", "t", "t", "p", "s">>}
           THEN <<>>
           ELSE IF hasValidators /\ ~ValidatorsUrl(full) THEN <<>>
           ELSE UrlUnparse(full)

(***************************************************************************)
(* Composite sanitation                                                    *)
(***************************************************************************)

\* The exception sanitize_event_data raises on data, or "none".
sanitize_event_data_raises(data) ==
  IF "city" \in DOMAIN data /\ standardize_city_name_raises(data["city"])
  THEN "AttributeError"
  ELSE IF "city" \notin DOMAIN data /\ "address" \in DOMAIN data
          /\ extract_city_from_address_raises(data["address"])
  THEN "AttributeError"
  ELSE IF "start_date" \in DOMAIN data
  THEN parse_date_raises(data["start_date"])
  ELSE "none"

\* sanitize_event_data filling the full schema of a venue.
sanitize_event_data_fills_schema(data, hasValidators) ==
  [k \in {"title", "description", "city", "venue_name", "event_url",
          "category", "address", "start_date", "source", "source_id",
          "latitude", "longitude", "image_url", "raw_payload"} |->
     IF k \in DOMAIN data THEN data[k] ELSE <<>>]

sanitize_event_data(data, hasValidators) ==
  LET keys == DOMAIN data \cup
                (IF "city" \notin DOMAIN data /\ "address" \in DOMAIN data
                 THEN {"city"} ELSE {})
  IN  [k \in keys |->
        CASE k = "title" -> clean_title(data[k])
          [] k = "description" -> clean_description(data[k])
          [] k = "city" ->
               IF "city" \in DOMAIN data
               THEN standardize_city_name(data["city"])
               ELSE extract_city_from_address(data["address"])
          [] k = "start_date" -> parse_date(data[k], None)
          [] k = "venue_name" -> clean_text(data[k], VenueNameMaxLength)
          [] k = "event_url" -> validate_and_clean_url(data[k], hasValidators)
          [] k = "category" -> clean_text(data[k], CategoryMaxLength)
          [] k = "address" -> clean_text(data[k], AddressMaxLength)
          [] OTHER -> data[k]]

(***************************************************************************)
(* The venue fetcher: GooglePlacesService                                  *)
(***************************************************************************)

\* The canonical names of settings.TARGET_CITIES, in its order.
TargetCities == <<Johannesburg, Pretoria>>

RECURSIVE Concat(_)
Concat(lists) ==
  IF lists = <<>> THEN <<>> ELSE Head(lists) \o Concat(Tail(lists))

\* The loop over the venue types: a type is searched only while fewer than
\* max_results venues have been collected.
RECURSIVE CollectVenues(_, _, _)
CollectVenues(typeResults, all_venues, max_results) ==
  IF typeResults = <<>> \/ Len(all_venues) >= max_results THEN all_venues
  ELSE CollectVenues(Tail(typeResults), all_venues \o Head(typeResults),
                     max_results)

\* The deduplication of search_event_venues keeping every venue.
UniqueVenues_keeps_duplicates(all_venues, seen_ids) == all_venues

\* Deduplicate by place id, the first occurrence kept.
RECURSIVE UniqueVenues(_, _)
UniqueVenues(all_venues, seen_ids) ==
  IF all_venues = <<>> THEN <<>>
  ELSE IF Head(all_venues)["source_id"] \in seen_ids
  THEN UniqueVenues(Tail(all_venues), seen_ids)
  ELSE <<Head(all_venues)>> \o
       UniqueVenues(Tail(all_venues),
                    seen_ids \cup {Head(all_venues)["source_id"]})

\* search_event_venues on the per-type answers of _text_search.
search_event_venues(typeResults, max_results) ==
  SliceTo(UniqueVenues(CollectVenues(typeResults, <<>>, max_results), {}),
          max_results)

\* search_all_cities: the venues of every target city, one list after the
\* other.
search_all_cities(resultsOf, max_per_city) ==
  Concat([i \in DOMAIN TargetCities |->
            search_event_venues(resultsOf[TargetCities[i]], max_per_city)])

(***************************************************************************)
(* The Event model and its storage                                         *)
(***************************************************************************)

GooglePlaces == <<"g", "p">>

\* The columns declared without null=True.
NotNullFields == {"title", "venue_name", "city", "category", "event_url",
                  "source", "raw_payload", "source_id", "description",
                  "address", "image_url"}

NotNullViolation(row) == \E f \in NotNullFields : row[f] = None

\* Mutant: the unique constraint on source_id is not declared.
UniqueViolation_undeclared(evs, source_id) == FALSE

\* unique=True on source_id: a row with this source_id is already stored.
UniqueViolation(evs, source_id) ==
  \E i \in DOMAIN evs : evs[i]["source_id"] = source_id

\* Event.save(): strips the text fields and title-cases the city.
save(row) ==
  [row EXCEPT
     !["title"] = IF Falsy(@) THEN @ ELSE Strip(@),
     !["venue_name"] = IF Falsy(@) THEN @ ELSE Strip(@),
     !["city"] = IF Falsy(@) THEN @ ELSE Title(Strip(@)),
     !["description"] = IF Falsy(@) THEN @ ELSE Strip(@)]

\* The field defaults of the model, which a created row takes for every
\* field the caller gives no value for.
ModelFieldDefaults ==
  [title |-> <<>>, venue_name |-> <<>>, description |-> <<>>, city |-> <<>>,
   address |-> <<>>, category |-> <<>>, event_url |-> <<>>,
   image_url |-> <<>>, latitude |-> None, longitude |-> None,
   source |-> GooglePlaces, start_date |-> None, raw_payload |-> EmptyDict]

\* The primary keys of the rows a get(source_id=...) matches.
Matching(evs, source_id) ==
  {i \in DOMAIN evs : evs[i]["source_id"] = source_id}

\* Mutant: a get_or_create in place of update_or_create, which leaves a row
\* it finds as it is.
update_or_create_keeps_found(evs, pk, source_id, defaults, visible, dbFails) ==
  IF dbFails
  THEN [events |-> evs, created |-> FALSE, exc |-> "OperationalError",
        conflict |-> FALSE]
  ELSE IF pk # 0 \/ UniqueViolation(evs, source_id)
  THEN [events |-> evs, created |-> FALSE, exc |-> "none",
        conflict |-> pk = 0]
  ELSE [events |->
          Append(evs, save((defaults @@ [source_id |-> source_id])
                           @@ ModelFieldDefaults)),
        created |-> TRUE, exc |-> "none", conflict |-> FALSE]

\* The second half of Event.objects.update_or_create(source_id, defaults),
\* after its get found the row pk (0: DoesNotExist).  The result holds the
\* new storage, the created flag and the exception raised ("none" if none).
\*   - a found row gets every key of defaults set and is saved;
\*   - else a row is created from source_id and defaults; when the unique
\*     constraint rejects it, because
\*     a concurrent run created the key since the get, the manager gets the
\*     row again and updates it if the database shows it (visible), and
\*     raises the IntegrityError if not;
\*   - a NOT NULL column set to None raises IntegrityError;
\*   - the database may fail for its own reasons (dbFails).
update_or_create(evs, pk, source_id, defaults, visible, dbFails) ==
  LET new == save((defaults @@ [source_id |-> source_id]) @@ ModelFieldDefaults)
      updated(i) == save(defaults @@ evs[i])
      unchanged(exc, conflict) ==
        [events |-> evs, created |-> FALSE, exc |-> exc, conflict |-> conflict]
      update(i, conflict) ==
        IF NotNullViolation(updated(i)) THEN unchanged("IntegrityError", conflict)
        ELSE [events |-> [evs EXCEPT ![i] = updated(i)], created |-> FALSE,
              exc |-> "none", conflict |-> conflict]
  IN  IF dbFails THEN unchanged("OperationalError", FALSE)
      ELSE IF pk # 0 THEN update(pk, FALSE)
      ELSE IF NotNullViolation(new) THEN unchanged("IntegrityError", FALSE)
      ELSE IF UniqueViolation(evs, source_id)
      THEN IF visible
           THEN update(CHOOSE i \in Matching(evs, source_id) : TRUE, TRUE)
           ELSE unchanged("IntegrityError", TRUE)
      ELSE [events |-> Append(evs, new), created |-> TRUE, exc |-> "none",
            conflict |-> FALSE]

(***************************************************************************)
(* The two ingestion callers                                               *)
(***************************************************************************)

\* Mutant: the defaults hold only the keys the sanitized record has.
admin_defaults_partial(sanitized) ==
  [k \in (DOMAIN sanitized) \ {"source_id"} |-> sanitized[k]]

\* The defaults of the upsert in EventAdmin._process_venue.
admin_defaults(sanitized) ==
  [title |-> Get(sanitized, "title", <<>>),
   venue_name |-> Get(sanitized, "venue_name", <<>>),
   description |-> Get(sanitized, "description", <<>>),
   city |-> Get(sanitized, "city", Johannesburg),
   address |-> Get(sanitized, "address", <<>>),
   category |-> Get(sanitized, "category", <<>>),
   event_url |-> Get(sanitized, "event_url", <<>>),
   image_url |-> Get(sanitized, "image_url", <<>>),
   latitude |-> Get(sanitized, "latitude", None),
   longitude |-> Get(sanitized, "longitude", None),
   source |-> Get(sanitized, "source", GooglePlaces),
   start_date |-> Get(sanitized, "start_date", None),
   raw_payload |-> Get(sanitized, "raw_payload", EmptyDict)]

\* The defaults of the upsert in the ingest_events command.
command_defaults(sanitized) ==
  [title |-> Get(sanitized, "title", <<>>),
   venue_name |-> Get(sanitized, "venue_name", <<>>),
   description |-> Get(sanitized, "description", <<>>),
   city |-> Get(sanitized, "city", Johannesburg),
   address |-> Get(sanitized, "address", <<>>),
   category |-> Get(sanitized, "category", <<>>),
   event_url |-> Get(sanitized, "event_url", <<>>),
   image_url |-> Get(sanitized, "image_url", <<>>),
   latitude |-> Get(sanitized, "latitude", None),
   longitude |-> Get(sanitized, "longitude", None),
   source |-> Get(sanitized, "source", GooglePlaces),
   start_date |-> Get(sanitized, "start_date", None),
   raw_payload |-> Get(sanitized, "raw_payload", EmptyDict)]

\* Every exception of the model is a subclass of Exception.
IsException(exc) ==
  exc \in {"AttributeError", "IntegrityError", "OperationalError",
           "MultipleObjectsReturned"}

\* Mutant: the dry_run test is missing.
admin_before_storage_ignores_dry_run(venue_data, dry_run, hasValidators) ==
  IF sanitize_event_data_raises(venue_data) # "none" THEN "error"
  ELSE IF Falsy(Get(sanitize_event_data(venue_data, hasValidators),
                    "source_id", None))
  THEN "skipped"
  ELSE "upsert"

\* What _process_venue returns before it reaches storage ("upsert" when it
\* goes on to update_or_create): the source_id test comes before the
\* dry_run test.
admin_before_storage(venue_data, dry_run, hasValidators) ==
  IF sanitize_event_data_raises(venue_data) # "none" THEN "error"
  ELSE IF Falsy(Get(sanitize_event_data(venue_data, hasValidators),
                    "source_id", None))
  THEN "skipped"
  ELSE IF dry_run THEN "created"
  ELSE "upsert"

\* Mutant: the outer `except Exception` is missing.
admin_on_exception_inner_only(exc) ==
  IF exc = "IntegrityError" THEN "skipped" ELSE "raise"

\* The handlers around update_or_create in _process_venue: the inner try
\* catches IntegrityError, the outer one every Exception.  "raise" stands
\* for an exception that leaves the method.
admin_on_exception(exc) ==
  IF exc = "IntegrityError" THEN "skipped"
  ELSE IF IsException(exc) THEN "error"
  ELSE "raise"

\* The if/elif chain of ingest_events_view over the result of _process_venue.
admin_tally(c, result) ==
  IF result = "created" THEN [c EXCEPT !.created = @ + 1]
  ELSE IF result = "updated" THEN [c EXCEPT !.updated = @ + 1]
  ELSE IF result = "skipped" THEN [c EXCEPT !.skipped = @ + 1]
  ELSE [c EXCEPT !.errors = @ + 1]

\* The body of the command's loop before it reaches storage: the dry_run
\* test comes before the source_id test.
command_before_storage(venue_data, dry_run, hasValidators) ==
  IF sanitize_event_data_raises(venue_data) # "none" THEN "error"
  ELSE IF dry_run THEN "created"
  ELSE IF Falsy(Get(sanitize_event_data(venue_data, hasValidators),
                    "source_id", None))
  THEN "skipped"
  ELSE "upsert"

\* The except clauses of the command's loop: IntegrityError and Exception
\* both count an error.
command_on_exception(exc) ==
  IF exc = "IntegrityError" THEN "error"
  ELSE IF IsException(exc) THEN "error"
  ELSE "raise"

\* Mutant: the skipped branch does not count.
command_tally_drops_skipped(c, result) ==
  IF result = "created" THEN [c EXCEPT !.created = @ + 1]
  ELSE IF result = "updated" THEN [c EXCEPT !.updated = @ + 1]
  ELSE IF result = "error" THEN [c EXCEPT !.errors = @ + 1]
  ELSE c

\* The counter the command increments for an outcome.
command_tally(c, result) ==
  IF result = "created" THEN [c EXCEPT !.created = @ + 1]
  ELSE IF result = "updated" THEN [c EXCEPT !.updated = @ + 1]
  ELSE IF result = "skipped" THEN [c EXCEPT !.skipped = @ + 1]
  ELSE IF result = "error" THEN [c EXCEPT !.errors = @ + 1]
  ELSE c

(***************************************************************************)
(* The venues the upstream places API may answer with                      *)
(***************************************************************************)

SourceIdA == <<"g", ":", "a">>
SourceIdB == <<"g", ":", "b">>

\* A complete venue, as _transform_place builds it.
VenueA ==
  [source_id |-> SourceIdA, title |-> <<"A">>, venue_name |-> <<"A">>,
   description |-> <<"d">>, city |-> <<"j", "h", "b">>,
   address |-> <<"1", " ", "S", "o", "w", "e", "t", "o">>,
   category |-> <<"M">>, event_url |-> <<"a", ".", "c", "o">>,
   image_url |-> <<"i">>, latitude |-> Int5, longitude |-> Int5,
   source |-> GooglePlaces, start_date |-> Datetime1,
   raw_payload |-> Payload1]

\* The same place with another title and most keys missing: its city comes
\* from the address, its URL is one only the validators library rejects.
VenueA2 ==
  [source_id |-> SourceIdA, title |-> <<" ", "<", "i", ">", "B">>,
   address |-> <<"M", "e", "n", "l", "y", "n">>,
   event_url |-> <<"x", " ", "y">>, raw_payload |-> Payload2]

\* A venue without a source identifier.
VenueNoId ==
  [source_id |-> None, title |-> <<"C">>, city |-> Pretoria]

\* A venue whose city is no str: standardize_city_name raises on it.
VenueBadCity ==
  [source_id |-> SourceIdB, title |-> <<"D">>, city |-> Int5]

\* A venue whose city is empty: it sanitizes to None, which the NOT NULL
\* city column rejects.
VenueNullCity ==
  [source_id |-> SourceIdB, title |-> <<"E">>, city |-> <<>>]

\* The venues the places API may list for each target city.
JohannesburgVenues == {VenueA, VenueNoId, VenueBadCity}
PretoriaVenues == {VenueA2, VenueNullCity}

\* The most venues the places API answers with for one city.
MaxVenues == 1

\* max_results of a run.
MaxResults == 2

RECURSIVE SeqsUpTo(_, _)
SeqsUpTo(S, n) ==
  IF n = 0 THEN {<<>>}
  ELSE SeqsUpTo(S, n - 1) \cup
       {Append(s, x) : s \in {t \in SeqsUpTo(S, n - 1) : Len(t) = n - 1},
                       x \in S}

Callers == {"admin", "command"}

\* The city argument of a run: "" searches every target city.
CityArgs == {<<>>, Johannesburg, Pretoria}

ZeroCounts == [created |-> 0, updated |-> 0, skipped |-> 0, errors |-> 0]

NoRecord == [source_id |-> None]

NoStep ==
  [caller |-> "none", venue |-> NoRecord, pk |-> 0,
   exc |-> "none", result |-> "none", conflict |-> FALSE, dry_run |-> FALSE]

(***************************************************************************)
(* State                                                                   *)
(***************************************************************************)

VARIABLES
  places,          \* the upstream answer for each target city
  HAS_VALIDATORS,  \* whether the validators library was importable
  events,          \* the stored Event rows; the primary key is the index
  phase,           \* per caller: idle, loop, upsert, done or aborted
  dry_run,         \* per caller: the dry_run option of its run
  venues,          \* per caller: the fetched batch
  consumed,        \* per caller: the records of the batch consumed so far
  counts,          \* per caller: the four counters
  sanitized,       \* per caller: the sanitized record on its way to storage
  found,           \* per caller: the pk update_or_create's get found, or 0
  solo,            \* history: no other run overlapped this one
  fresh,           \* history: no key of the batch was stored at the start
  last,            \* history: the record consumed by the latest step
  call,            \* the latest direct call of a function
  http,            \* the _make_request call in progress
  chat             \* the chat tables and the chat requests in progress

vars == <<places, HAS_VALIDATORS, events, phase, dry_run, venues, consumed,
          counts, sanitized, found, solo, fresh, last, call, http, chat>>

\* No function has been called directly.
NoCall == [fn |-> "none"]

\* _make_request has not been called.
NoRequest == [state |-> "idle"]

\* No chat request has arrived and the chat tables are empty.
NoChat == [state |-> "idle"]

Init ==
  /\ \E j \in SeqsUpTo(JohannesburgVenues, MaxVenues),
        p \in SeqsUpTo(PretoriaVenues, MaxVenues) :
       places = [t \in {Johannesburg, Pretoria} |->
                   IF t = Johannesburg THEN j ELSE p]
  /\ HAS_VALIDATORS \in BOOLEAN
  /\ events = <<>>
  /\ phase = [c \in Callers |-> "idle"]
  /\ dry_run = [c \in Callers |-> FALSE]
  /\ venues = [c \in Callers |-> <<>>]
  /\ consumed = [c \in Callers |-> 0]
  /\ counts = [c \in Callers |-> ZeroCounts]
  /\ sanitized = [c \in Callers |-> NoRecord]
  /\ found = [c \in Callers |-> 0]
  /\ solo = [c \in Callers |-> TRUE]
  /\ fresh = [c \in Callers |-> TRUE]
  /\ last = NoStep
  /\ call = NoCall
  /\ http = NoRequest
  /\ chat = NoChat

\* _text_search per venue type: every venue is the answer to its own type.
TypeResults(city) == [i \in DOMAIN places[city] |-> <<places[city][i]>>]

Active(c) == phase[c] \in {"loop", "upsert"}

\* A run starts: the venues are fetched and the counters are zeroed.
StartRun(c, city, dry) ==
  /\ phase[c] = "idle"
  /\ LET batch == IF city # <<>>
                  THEN search_event_venues(TypeResults(city), MaxResults)
                  ELSE search_all_cities(
                         [t \in {Johannesburg, Pretoria} |-> TypeResults(t)],
                         MaxResults)
     IN  /\ venues' = [venues EXCEPT ![c] = batch]
         /\ phase' = [phase EXCEPT ![c] = IF batch = <<>> THEN "done" ELSE "loop"]
         /\ fresh' = [fresh EXCEPT ![c] =
                        \A i \in DOMAIN batch :
                           ~UniqueViolation(events, batch[i]["source_id"])]
  /\ dry_run' = [dry_run EXCEPT ![c] = dry]
  /\ consumed' = [consumed EXCEPT ![c] = 0]
  /\ counts' = [counts EXCEPT ![c] = ZeroCounts]
  /\ solo' = [d \in Callers |->
                IF d = c THEN \A e \in Callers \ {c} : ~Active(e)
                ELSE IF Active(d) THEN FALSE ELSE solo[d]]
  /\ UNCHANGED <<places, HAS_VALIDATORS, events, sanitized, found, last, call,
                 http, chat>>

\* The code of caller c: the admin view or the command.
BeforeStorage(c, venue_data, dry, hasValidators) ==
  IF c = "admin" THEN admin_before_storage(venue_data, dry, hasValidators)
  ELSE command_before_storage(venue_data, dry, hasValidators)

OnException(c, exc) ==
  IF c = "admin" THEN admin_on_exception(exc) ELSE command_on_exception(exc)

Tally(c, counters, result) ==
  IF c = "admin" THEN admin_tally(counters, result)
  ELSE command_tally(counters, result)

Defaults(c, record) ==
  IF c = "admin" THEN admin_defaults(record) ELSE command_defaults(record)

\* The record at hand is tallied under result and the loop moves on; an
\* exception that leaves the loop ends the run.
Consume(c, result, step) ==
  /\ IF result = "raise"
     THEN /\ phase' = [phase EXCEPT ![c] = "aborted"]
          /\ UNCHANGED <<consumed, counts>>
     ELSE /\ counts' = [counts EXCEPT ![c] = Tally(c, @, result)]
          /\ consumed' = [consumed EXCEPT ![c] = @ + 1]
          /\ phase' = [phase EXCEPT ![c] =
                         IF consumed[c] + 1 = Len(venues[c])
                         THEN "done" ELSE "loop"]
  /\ last' = step
  /\ sanitized' = [sanitized EXCEPT ![c] = NoRecord]
  /\ found' = [found EXCEPT ![c] = 0]

\* The first half of a loop iteration: sanitation, the source_id and dry_run
\* tests, and the get of update_or_create.
ProcessVenue(c) ==
  /\ phase[c] = "loop"
  /\ LET venue_data == venues[c][consumed[c] + 1]
         pre == BeforeStorage(c, venue_data, dry_run[c], HAS_VALIDATORS)
         source_id == sanitize_event_data(venue_data, HAS_VALIDATORS)["source_id"]
         step == [caller |-> c, venue |-> venue_data, pk |-> 0,
                  exc |-> "none", result |-> pre, conflict |-> FALSE,
                  dry_run |-> dry_run[c]]
     IN  IF pre # "upsert"
         THEN Consume(c, pre,
                      [step EXCEPT !.exc = sanitize_event_data_raises(venue_data)])
         ELSE IF Cardinality(Matching(events, source_id)) > 1
         THEN Consume(c, OnException(c, "MultipleObjectsReturned"),
                      [step EXCEPT
                         !.exc = "MultipleObjectsReturned",
                         !.result = OnException(c, "MultipleObjectsReturned")])
         ELSE /\ found' = [found EXCEPT ![c] =
                             IF Matching(events, source_id) = {} THEN 0
                             ELSE CHOOSE i \in Matching(events, source_id) : TRUE]
              /\ sanitized' = [sanitized EXCEPT ![c] =
                                  sanitize_event_data(venue_data, HAS_VALIDATORS)]
              /\ phase' = [phase EXCEPT ![c] = "upsert"]
              /\ UNCHANGED <<consumed, counts, last>>
  /\ UNCHANGED <<places, HAS_VALIDATORS, events, dry_run, venues, solo, fresh,
                 call, http, chat>>

\* The second half: update_or_create writes, and its outcome is tallied.
Upsert(c) ==
  /\ phase[c] = "upsert"
  /\ \E visible \in BOOLEAN, dbFails \in BOOLEAN :
       LET venue_data == venues[c][consumed[c] + 1]
           out == update_or_create(events, found[c],
                                   sanitized[c]["source_id"],
                                   Defaults(c, sanitized[c]), visible,
                                   dbFails)
           result == IF out.exc # "none" THEN OnException(c, out.exc)
                     ELSE IF out.created THEN "created" ELSE "updated"
       IN  /\ events' = out.events
           /\ Consume(c, result,
                      [caller |-> c, venue |-> venue_data, pk |-> found[c],
                       exc |-> out.exc, result |-> result,
                       conflict |-> out.conflict, dry_run |-> dry_run[c]])
  /\ UNCHANGED <<places, HAS_VALIDATORS, dry_run, venues, solo, fresh, call,
                 http, chat>>

\* ingest_events_view (POST) of the admin.
AdminStart == \E city \in CityArgs, dry \in BOOLEAN : StartRun("admin", city, dry)

AdminProcessVenue == ProcessVenue("admin")

AdminUpsert == Upsert("admin")

\* Command.handle of ingest_events.
CommandStart == \E city \in CityArgs, dry \in BOOLEAN : StartRun("command", city, dry)

CommandProcessVenue == ProcessVenue("command")

CommandUpsert == Upsert("command")

Next ==
  \/ AdminStart
  \/ AdminProcessVenue
  \/ AdminUpsert
  \/ CommandStart
  \/ CommandProcessVenue
  \/ CommandUpsert

Spec == Init /\ [][Next]_vars

(***************************************************************************)
(* The sanitation functions called directly                                *)
(***************************************************************************)

\* str.upper()
Upper(s) == [i \in DOMAIN s |-> UpperChar(s[i])]

\* The pieces the texts of the model are made of: plain words, whitespace,
\* a tag, stray angle brackets, character references and a control
\* character.
TextFragments ==
  {<<"a">>, 
   <<" ">>, 
   <<"b">>, 
   <<"<", "b", ">">>, 
   <<"<">>, 
   <<">">>, 
   <<"&", "l", "t", ";">>, 
   <<"&", "g", "t", ";">>, 
   <<"&", "a", "m", "p", ";">>, 
   <<"l", "t", ";">>, 
   <<"\f">>}

\* The most fragments of a text.
MaxParts == 3

RECURSIVE TextsUpTo(_)
TextsUpTo(n) ==
  IF n = 0 THEN {<<>>}
  ELSE TextsUpTo(n - 1) \cup
       {s \o f : s \in TextsUpTo(n - 1), f \in TextFragments}

Texts == TextsUpTo(MaxParts) \cup {None, Int5}

\* The largest max_length a text is cleaned with; 0 stands for None.
MaxMaxLength == 5

\* alias, alias.upper() and the alias between two spaces.
AliasVariants(i) ==
  {CITY_NAME_MAPPINGS[i][1], Upper(CITY_NAME_MAPPINGS[i][1]),
    <<" ">> \o CITY_NAME_MAPPINGS[i][1] \o <<" ">>}

\* Cities that are no alias and contain one: aliases of both target
\* cities in either order of appearance, and aliases of one city only.
TwoAliasCities ==
  {<<"p", "r", "e", "t", "o", "r", "i", "a", " ", "s", "a", "n", "d", "t", "o", "n">>,
    <<"S", "a", "n", "d", "t", "o", "n", ",", " ", "P", "r", "e", "t", "o", "r", "i", "a">>,
    <<"T", "s", "h", "w", "a", "n", "e", " ", "J", "H", "B">>,
    <<"g", "r", "e", "a", "t", "e", "r", " ", "p", "r", "e", "t", "o", "r", "i", "a">>,
    <<"E", "a", "s", "t", " ", "B", "e", "n", "o", "n", "i">>,
    <<"c", "i", "t", "y", " ", "o", "f", " ", "t", "s", "h", "w", "a", "n", "e", " ", "m", "e", "t", "r", "o">>}

CityInputs ==
  UNION {AliasVariants(i) : i \in DOMAIN CITY_NAME_MAPPINGS} \cup
  {<<>>, None, Int5,
    <<"d", "u", "r", "b", "a", "n">>,
    <<" ", "c", "a", "p", "e", " ", "t", "o", "w", "n", " ">>,
    <<"D", "u", "r", "b", "a", "n">>,
    <<"m", "c", "G", "r", "e", "g", "o", "r">>,
    <<" ", " ">>,
    <<"n", "e", "w", " ", "j", "h", "b", " ", "n", "o", "r", "t", "h">>} \cup
  TwoAliasCities


\* Numbers in thousands: seconds and milliseconds of the same instants,
\* before and after the epoch, and the values around the threshold and
\* around the years 1 and 9999.
TimestampThousands ==
  {0, 1702800, 1702800000, -1702800, -1702800000, 1000000000, 1000000001,
    -1000000001, 253402300, 253402301, -62135596, -62135597}

DateInputs ==
  {Thousands(m) : m \in TimestampThousands} \cup
  {None, Datetime1, Date1, Int5, FloatInf, FloatNegInf, FloatNan, Float1e300,
    IntTenTo400, EmptyDict, <<>>, <<" ">>, IsoDate1,
    <<" ", "2", "0", "2", "4", "-", "1", "2", "-", "1", "7", " ">>,
    <<"s", "o", "o", "n">>}

UrlInputs ==
  {None, <<>>, Int5,
    <<"a", ".", "c", "o">>,
    <<"n", "o", "t", " ", "a", " ", "u", "r", "l">>,
    <<"f", "t", "p", ":", "/", "/", "h", ".", "c", "o", "/", "x">>,
    <<"h", "t", "t", "p", ":", "/", "/", "a", ".", "c", "o">>,
    <<"h", "t", "t", "p", "s", ":", "/", "/", "a", ".", "c", "o", "/", "p">>,
    <<"/", "/", "a", ".", "c", "o">>,
    <<"h", "t", "t", "p", ":", "/", "/">>,
    <<" ", "a", ".", "c", "o", " ">>,
    <<"a", ".", "c", "o", "\t", "/", "p">>,
    <<"H", "T", "T", "P", ":", "/", "/", "a", ".", "c", "o">>,
    <<"l", "o", "c", "a", "l", "h", "o", "s", "t">>}

\* The fields of a raw venue.
Fields == {"title", "description", "city", "venue_name", "event_url",
           "category", "address", "start_date", "source", "source_id",
           "latitude", "longitude", "image_url", "raw_payload"}

\* Raw venues with every field, before keys are taken away.
FullRecords ==
  [title : {<<"A">>, <<"&", "a", "m", "p", ";", "l", "t", ";">>, <<" ", "<", "i", ">", "B">>},
   description : {<<"a", " ", "&", "l", "t", ";", "b", "&", "g", "t", ";", " ", "c">>},
   city : {<<>>, None, Int5, <<"j", "h", "b">>, <<"d", "u", "r", "b", "a", "n", " ">>},
   venue_name : {<<"a", " ", " ", "b">>},
   event_url : {<<"a", ".", "c", "o">>, <<"n", "o", "t", " ", "a", " ", "u", "r", "l">>},
   category : {<<"M">>},
   address : {<<"1", " ", "S", "o", "w", "e", "t", "o">>, <<"2", " ", "M", "a", "i", "n", " ", "R", "d">>},
   start_date : {None, Datetime1, Thousands(1702800000), <<"s", "o", "o", "n">>},
   source : {GooglePlaces},
   source_id : {SourceIdA},
   latitude : {Int5},
   longitude : {Int5},
   image_url : {<<"i", ".", "c", "o", "/", "x", " ", "y">>},
   raw_payload : {Payload1}]

\* The most keys of a raw venue that does not carry every field.
MaxKeys == 2

KeySets == {ks \in SUBSET Fields : Cardinality(ks) <= MaxKeys} \cup {Fields}

RawRecords == {[k \in ks |-> f[k]] : f \in FullRecords, ks \in KeySets}

\* sanitize_event_data writing to the mapping it was given.
sanitize_event_data_in_place(data, hasValidators) ==
  sanitize_event_data(data, hasValidators)

\* sanitized = data.copy(): every write of sanitize_event_data goes to the
\* copy, so the caller's mapping is afterwards what it was.
sanitize_event_data_argument(data, hasValidators) == data

CallCleanText ==
  /\ call.fn = "none"
  /\ \E text \in Texts, max_length \in 0..MaxMaxLength :
       call' = [fn |-> "clean_text", text |-> text, max_length |-> max_length,
                returned |-> clean_text(text, max_length)]
  /\ UNCHANGED <<places, HAS_VALIDATORS, events, phase, dry_run, venues,
                 consumed, counts, sanitized, found, solo, fresh, last, http,
                 chat>>

CallStandardizeCityName ==
  /\ call.fn = "none"
  /\ \E city \in CityInputs :
       call' = [fn |-> "standardize_city_name", city |-> city,
                raised |-> IF standardize_city_name_raises(city)
                           THEN "AttributeError" ELSE "none",
                returned |-> IF standardize_city_name_raises(city) THEN None
                             ELSE standardize_city_name(city)]
  /\ UNCHANGED <<places, HAS_VALIDATORS, events, phase, dry_run, venues,
                 consumed, counts, sanitized, found, solo, fresh, last, http,
                 chat>>

CallParseDate ==
  /\ call.fn = "none"
  /\ \E date_input \in DateInputs, default \in {None, Datetime1} :
       call' = [fn |-> "parse_date", date_input |-> date_input,
                default |-> default,
                raised |-> parse_date_raises(date_input),
                returned |-> IF parse_date_raises(date_input) # "none"
                             THEN None ELSE parse_date(date_input, default)]
  /\ UNCHANGED <<places, HAS_VALIDATORS, events, phase, dry_run, venues,
                 consumed, counts, sanitized, found, solo, fresh, last, http,
                 chat>>

CallValidateAndCleanUrl ==
  /\ call.fn = "none"
  /\ \E url \in UrlInputs :
       call' = [fn |-> "validate_and_clean_url", url |-> url,
                returned |-> validate_and_clean_url(url, HAS_VALIDATORS)]
  /\ UNCHANGED <<places, HAS_VALIDATORS, events, phase, dry_run, venues,
                 consumed, counts, sanitized, found, solo, fresh, last, http,
                 chat>>

\* sanitize_event_data(data), first pass or second: pass 2 is given what
\* pass 1 returned.
SanitizeCall(given, pass) ==
  [fn |-> "sanitize_event_data", pass |-> pass, given |-> given,
   data |-> sanitize_event_data_argument(given, HAS_VALIDATORS),
   raised |-> sanitize_event_data_raises(given),
   returned |-> IF sanitize_event_data_raises(given) # "none" THEN NoRecord
                ELSE sanitize_event_data(given, HAS_VALIDATORS)]

CallSanitizeEventData ==
  /\ call.fn = "none"
  /\ \E data \in RawRecords : call' = SanitizeCall(data, 1)
  /\ UNCHANGED <<places, HAS_VALIDATORS, events, phase, dry_run, venues,
                 consumed, counts, sanitized, found, solo, fresh, last, http,
                 chat>>

CallSanitizeEventDataAgain ==
  /\ call.fn = "sanitize_event_data"
  /\ call.pass = 1
  /\ call.raised = "none"
  /\ call' = SanitizeCall(call.returned, 2)
  /\ UNCHANGED <<places, HAS_VALIDATORS, events, phase, dry_run, venues,
                 consumed, counts, sanitized, found, solo, fresh, last, http,
                 chat>>

\* No ingestion runs: the places API has nothing to answer with.
SanitationInit ==
  /\ places = [t \in {Johannesburg, Pretoria} |-> <<>>]
  /\ HAS_VALIDATORS \in BOOLEAN
  /\ events = <<>>
  /\ phase = [c \in Callers |-> "idle"]
  /\ dry_run = [c \in Callers |-> FALSE]
  /\ venues = [c \in Callers |-> <<>>]
  /\ consumed = [c \in Callers |-> 0]
  /\ counts = [c \in Callers |-> ZeroCounts]
  /\ sanitized = [c \in Callers |-> NoRecord]
  /\ found = [c \in Callers |-> 0]
  /\ solo = [c \in Callers |-> TRUE]
  /\ fresh = [c \in Callers |-> TRUE]
  /\ last = NoStep
  /\ call = NoCall
  /\ http = NoRequest
  /\ chat = NoChat

SanitationNext ==
  \/ CallCleanText
  \/ CallStandardizeCityName
  \/ CallParseDate
  \/ CallValidateAndCleanUrl
  \/ CallSanitizeEventData
  \/ CallSanitizeEventDataAgain

SanitationSpec == SanitationInit /\ [][SanitationNext]_vars

(***************************************************************************)
(* The event list API: EnhancedPageNumberPagination                        *)
(***************************************************************************)

\* The class attributes of EnhancedPageNumberPagination.
page_size == 10
max_page_size == 15

\* math.ceil(a / b) for a >= 0 and b > 0.
Ceil(a, b) == (a + b - 1) \div b

\* A query parameter of the request: absent, an integer, or another text.
Absent == [kind |-> "absent"]
IntParam(n) == [kind |-> "int", value |-> n]
TextParam == [kind |-> "text"]

\* get_page_size of PageNumberPagination with page_size_query_param set:
\* a strictly positive integer is cut off at max_page_size; a missing
\* parameter, a text, zero or a negative integer give the class's page_size.
get_page_size(param) ==
  IF param.kind = "int" /\ param.value > 0
  THEN Min(param.value, max_page_size)
  ELSE page_size

\* An entry None of the page number list.
NoPage == 0

\* _get_page_numbers(current_page, total_pages, window).
_get_page_numbers(current_page, total_pages, window) ==
  IF total_pages <= 1 THEN <<1>>
  ELSE LET first == IF current_page > window + 2 THEN <<1, NoPage>> ELSE <<>>
           start == Max(1, current_page - window)
           end == Min(total_pages, current_page + window)
           around == [i \in 1..(end - start + 1) |-> start + i - 1]
           final == IF current_page < total_pages - window - 1
                    THEN <<NoPage, total_pages>> ELSE <<>>
       IN  first \o around \o final

\* The window argument's default.
DefaultWindow == 2

\* GET of EventListView on a queryset of count events: paginate_queryset
\* (404 for a page that is no integer or out of range), then
\* get_paginated_response.  results is the number of events on the page.
list_events(count, page_size_param, page_param) ==
  LET size == get_page_size(page_size_param)
      num_pages == Ceil(Max(1, count), size)
      number == IF page_param.kind = "int" THEN page_param.value ELSE 1
      total_pages == Ceil(count, size)
  IN  IF page_param.kind = "text" \/ number < 1 \/ number > num_pages
      THEN [status |-> 404]
      ELSE [status |-> 200,
            count |-> count,
            next |-> number < num_pages,
            previous |-> number > 1,
            current_page |-> number,
            total_pages |-> total_pages,
            page_size |-> size,
            page_numbers |-> _get_page_numbers(number, total_pages,
                                               DefaultWindow),
            first_page |-> number > 1,
            last_page |-> number < total_pages,
            results |-> Min(number * size, count) - (number - 1) * size]

\* The most events stored when the list is requested.
MaxStored == 22

\* The largest page_size or page a request asks for.
MaxParam == 21

\* The largest total_pages _get_page_numbers is called with.
MaxTotalPages == 12

QueryParams == {Absent, TextParam} \cup {IntParam(n) : n \in -1..MaxParam}

CallListEvents ==
  /\ call.fn = "none"
  /\ \E count \in 0..MaxStored, page_size_param \in QueryParams,
        page_param \in {Absent, TextParam} \cup {IntParam(n) : n \in 0..3} :
       call' = [fn |-> "list_events", count |-> count,
                page_size_param |-> page_size_param,
                page_param |-> page_param,
                response |-> list_events(count, page_size_param, page_param)]
  /\ UNCHANGED <<places, HAS_VALIDATORS, events, phase, dry_run, venues,
                 consumed, counts, sanitized, found, solo, fresh, last, http,
                 chat>>

CallGetPageNumbers ==
  /\ call.fn = "none"
  /\ \E total_pages \in 1..MaxTotalPages :
       \E current_page \in 1..total_pages :
          call' = [fn |-> "_get_page_numbers", current_page |-> current_page,
                   total_pages |-> total_pages,
                   returned |-> _get_page_numbers(current_page, total_pages,
                                                  DefaultWindow)]
  /\ UNCHANGED <<places, HAS_VALIDATORS, events, phase, dry_run, venues,
                 consumed, counts, sanitized, found, solo, fresh, last, http,
                 chat>>

PaginationInit == SanitationInit

PaginationNext ==
  \/ CallListEvents
  \/ CallGetPageNumbers

PaginationSpec == PaginationInit /\ [][PaginationNext]_vars

(***************************************************************************)
(* The venue fetcher called directly                                       *)
(***************************************************************************)

\* The suburbs GooglePlacesService._extract_city_from_address knows.
Suburbs ==
  <<<<"s", "a", "n", "d", "t", "o", "n">>,
    <<"r", "o", "s", "e", "b", "a", "n", "k">>,
    <<"s", "o", "w", "e", "t", "o">>,
    <<"r", "a", "n", "d", "b", "u", "r", "g">>,
    <<"m", "i", "d", "r", "a", "n", "d">>>>

\* GooglePlacesService._extract_city_from_address: Pretoria or Tshwane
\* first, every other address is in Johannesburg.
_extract_city_from_address(address) ==
  LET address_lower == Lower(address)
  IN  IF \/ Contains(address_lower, Lower(Pretoria))
         \/ Contains(address_lower, <<"t", "s", "h", "w", "a", "n", "e">>)
      THEN Pretoria
      ELSE IF \/ Contains(address_lower, Lower(Johannesburg))
              \/ \E i \in DOMAIN Suburbs : Contains(address_lower, Suburbs[i])
      THEN Johannesburg
      ELSE IF Contains(address_lower, <<"g", "a", "u", "t", "e", "n", "g">>)
      THEN Johannesburg
      ELSE Johannesburg

\* formattedAddress values of a place.
AddressInputs ==
  {<<"P", "r", "e", "t", "o", "r", "i", "a", ",", " ", "G", "a", "u", "t", "e", "n", "g">>,
    <<"1", " ", "S", "a", "n", "d", "t", "o", "n", " ", "D", "r", ",", " ", "P", "r", "e", "t", "o", "r", "i", "a">>,
    <<"C", "e", "n", "t", "u", "r", "i", "o", "n">>,
    <<"M", "e", "n", "l", "y", "n", ",", " ", "T", "s", "h", "w", "a", "n", "e">>,
    <<"S", "a", "n", "d", "t", "o", "n", ",", " ", "J", "o", "h", "a", "n", "n", "e", "s", "b", "u", "r", "g">>,
    <<"F", "o", "u", "r", "w", "a", "y", "s">>,
    <<"C", "a", "p", "e", " ", "T", "o", "w", "n">>,
    <<>>}

\* The place ids the places API answers with.
PlaceIds == {<<"a">>, <<"b">>, <<"c">>}

\* The most venue types searched, the most places one text search answers
\* with, and the largest max_results.
MaxTypes == 3
MaxPerType == 2
MaxMaxResults == 3

\* _text_search for the venue type at position i of venue_types:
\* _transform_place gives each place its source_id and a category, which
\* is that of the venue type when the place names no primary type.
TextSearch(placeIds, i) ==
  [k \in DOMAIN placeIds |-> [source_id |-> placeIds[k], category |-> i]]

\* The number of text searches the loop over the venue types issues.
RECURSIVE SearchesIssued(_, _, _)
SearchesIssued(typeResults, all_venues, max_results) ==
  IF typeResults = <<>> \/ Len(all_venues) >= max_results THEN 0
  ELSE 1 + SearchesIssued(Tail(typeResults), all_venues \o Head(typeResults),
                          max_results)

\* Both address extractors given the same address.
CallExtractCityFromAddress ==
  /\ call.fn = "none"
  /\ \E address \in AddressInputs :
       call' = [fn |-> "extract_city_from_address", address |-> address,
                sanitation |-> extract_city_from_address(address),
                google_places |-> _extract_city_from_address(address)]
  /\ UNCHANGED <<places, HAS_VALIDATORS, events, phase, dry_run, venues,
                 consumed, counts, sanitized, found, solo, fresh, last, http,
                 chat>>

\* search_event_venues(city, venue_types, max_results) with the answer of
\* the places API to each venue type.
CallSearchEventVenues ==
  /\ call.fn = "none"
  /\ \E answers \in SeqsUpTo(SeqsUpTo(PlaceIds, MaxPerType), MaxTypes),
        max_results \in 0..MaxMaxResults :
       LET typeResults == [i \in DOMAIN answers |-> TextSearch(answers[i], i)]
       IN  call' = [fn |-> "search_event_venues",
                    typeResults |-> typeResults,
                    max_results |-> max_results,
                    searches |-> SearchesIssued(typeResults, <<>>,
                                                max_results),
                    returned |-> search_event_venues(typeResults,
                                                     max_results)]
  /\ UNCHANGED <<places, HAS_VALIDATORS, events, phase, dry_run, venues,
                 consumed, counts, sanitized, found, solo, fresh, last, http,
                 chat>>

FetcherInit == SanitationInit

FetcherNext ==
  \/ CallExtractCityFromAddress
  \/ CallSearchEventVenues

FetcherSpec == FetcherInit /\ [][FetcherNext]_vars

(***************************************************************************)
(* GooglePlacesService._make_request                                       *)
(***************************************************************************)

\* What one HTTP attempt ends with: a response of status 200 with a JSON
\* body, of status 200 with a body that is no JSON, of status 429, 403 or
\* 500, or an exception of the transport.
Responses ==
  {"200 JSON", "200 no JSON", "429", "403", "500", "ConnectionError",
    "Timeout"}

\* The attempt raises a requests.RequestException: the transport failed, or
\* response.json() raised the JSONDecodeError of requests on a body that is
\* no JSON.
RaisesRequestException(response) ==
  response \in {"ConnectionError", "Timeout", "200 no JSON"}

\* The largest max_retries.
MaxMaxRetries == 3

\* _make_request retrying after every status that is not 200.
make_request_attempt_retries_every_status(h, response) ==
  LET log == Append(h.log, response)
  IN  IF response = "200 JSON"
      THEN [h EXCEPT !.state = "returned", !.log = log, !.result = "JSON"]
      ELSE IF Len(log) = h.max_retries
      THEN [h EXCEPT !.state = "returned", !.log = log, !.result = "None"]
      ELSE [h EXCEPT !.log = log]

\* One iteration of `for attempt in range(max_retries)`, and the
\* `return None` after the loop when it was the last one.
make_request_attempt(h, response) ==
  LET log == Append(h.log, response)
  IN  IF response = "200 JSON"
      THEN [h EXCEPT !.state = "returned", !.log = log, !.result = "JSON"]
      ELSE IF ~RaisesRequestException(response) /\ response # "429"
      THEN [h EXCEPT !.state = "returned", !.log = log, !.result = "None"]
      ELSE IF Len(log) = h.max_retries
      THEN [h EXCEPT !.state = "returned", !.log = log, !.result = "None"]
      ELSE [h EXCEPT !.log = log]

\* _make_request is called: with max_retries = 0 the loop has no iteration.
MakeRequest ==
  /\ http.state = "idle"
  /\ \E max_retries \in 0..MaxMaxRetries :
       http' = [state |-> IF max_retries = 0 THEN "returned" ELSE "running",
                max_retries |-> max_retries,
                log |-> <<>>,
                result |-> IF max_retries = 0 THEN "None" ELSE "none yet"]
  /\ UNCHANGED <<places, HAS_VALIDATORS, events, phase, dry_run, venues,
                 consumed, counts, sanitized, found, solo, fresh, last, call,
                 chat>>

\* The next HTTP attempt and what the server answers it with.
HttpAttempt ==
  /\ http.state = "running"
  /\ \E response \in Responses : http' = make_request_attempt(http, response)
  /\ UNCHANGED <<places, HAS_VALIDATORS, events, phase, dry_run, venues,
                 consumed, counts, sanitized, found, solo, fresh, last, call,
                 chat>>

RequestInit == SanitationInit

RequestNext ==
  \/ MakeRequest
  \/ HttpAttempt

RequestSpec == RequestInit /\ [][RequestNext]_vars

(***************************************************************************)
(* The AI chat: chat_send_message and UserTokenUsage                       *)
(***************************************************************************)

\* monthly_limit of a UserTokenUsage row, and the tokens chat_send_message
\* reserves for the response.
MonthlyLimit == 10000
ResponseReserve == 500

\* message[:50], the title of a conversation, by its length.
TitleLength == 50

\* estimate_tokens of a text of the given length.
estimate_tokens(length) == length \div 4

\* reset_if_needed on an instance of UserTokenUsage.  Time is counted in
\* periods of 30 days: more than 30 days have passed since last_reset when
\* the period of now is later than that of last_reset.
reset_if_needed(usage, now) ==
  IF now > usage.last_reset
  THEN [usage EXCEPT !.tokens_used = 0, !.last_reset = now]
  ELSE usage

\* can_use_tokens, on the instance as reset_if_needed leaves it.
can_use_tokens(usage, tokens, now) ==
  reset_if_needed(usage, now).tokens_used + tokens <= usage.monthly_limit

\* add_tokens: the instance that is saved.
add_tokens(usage, tokens, now) ==
  [reset_if_needed(usage, now) EXCEPT !.tokens_used = @ + tokens]

\* The requests in flight at once, and the periods of 30 days that pass.
MaxRequests == 2
MaxMonths == 1

Requests == 1..MaxRequests

\* The lengths of the stripped message: empty, a short question, and a
\* text of 9500 tokens.
MessageLengths == {0, 8, 38000}

\* The tokens generate_ai_response reports: the estimate of the fallback
\* text, and a total_tokens of the API above the reserve.
ResponseTokens == {60, 600}

\* An instance of UserTokenUsage that was not loaded.
NoUsage == [tokens_used |-> 0, last_reset |-> 0, monthly_limit |-> 0]

\* A request that has not arrived.  conversation_id 0 stands for None;
\* status is 0 until the response is sent.
NoChatRequest ==
  [pc |-> "idle", message |-> 0, conversation_id |-> 0, conversation |-> 0,
   created_conversation |-> FALSE, saved_usage |-> FALSE,
   token_usage |-> NoUsage, user_tokens |-> 0, response_tokens |-> 0,
   status |-> 0]

\* The request ends with a response of the given status.
Respond(request, status) ==
  [request EXCEPT !.pc = "done", !.status = status, !.token_usage = NoUsage,
                  !.user_tokens = 0, !.response_tokens = 0]

OtherVariablesOfChat ==
  <<places, HAS_VALIDATORS, events, phase, dry_run, venues, consumed, counts,
    sanitized, found, solo, fresh, last, call, http>>

\* chat_send_message up to the conversation: 400 for an empty message, 404
\* for a conversation_id the user has no conversation of, and a new
\* conversation when no conversation_id is given.  The requests are
\* numbered in the order of their arrival.
SendMessage(r) ==
  /\ chat.requests[r].pc = "idle"
  /\ \A q \in 1..(r - 1) : chat.requests[q].pc # "idle"
  /\ \E message \in MessageLengths,
        conversation_id \in 0..(Len(chat.conversations) + 1) :
       LET request == [chat.requests[r] EXCEPT
                         !.message = message,
                         !.conversation_id = conversation_id]
       IN  IF message = 0
           THEN chat' = [chat EXCEPT !.requests[r] = Respond(request, 400)]
           ELSE IF conversation_id # 0
           THEN IF conversation_id \in DOMAIN chat.conversations
                THEN chat' = [chat EXCEPT
                                !.requests[r] =
                                   [request EXCEPT
                                      !.pc = "usage",
                                      !.conversation = conversation_id]]
                ELSE chat' = [chat EXCEPT
                                !.requests[r] = Respond(request, 404)]
           ELSE chat' = [chat EXCEPT
                           !.conversations =
                              Append(@, [title |-> Min(message, TitleLength)]),
                           !.requests[r] =
                              [request EXCEPT
                                 !.pc = "usage",
                                 !.conversation = Len(chat.conversations) + 1,
                                 !.created_conversation = TRUE]]
  /\ UNCHANGED OtherVariablesOfChat

\* UserTokenUsage.get_or_create_for_user and estimate_tokens(message).
GetUsage(r) ==
  /\ chat.requests[r].pc = "usage"
  /\ LET row == IF chat.usage = <<>>
                THEN [tokens_used |-> 0, last_reset |-> chat.now,
                      monthly_limit |-> MonthlyLimit]
                ELSE chat.usage[1]
     IN  chat' = [chat EXCEPT
                    !.usage = <<row>>,
                    !.requests[r] =
                       [@ EXCEPT !.pc = "check",
                                 !.token_usage = row,
                                 !.user_tokens =
                                    estimate_tokens(chat.requests[r].message)]]
  /\ UNCHANGED OtherVariablesOfChat

\* The rate limit: can_use_tokens(user_tokens + 500), whose reset_if_needed
\* saves the instance when it resets it; 429 when the tokens do not fit.
CheckLimit(r) ==
  /\ chat.requests[r].pc = "check"
  /\ LET request == chat.requests[r]
         usage == reset_if_needed(request.token_usage, chat.now)
         saved == usage # request.token_usage
         checked == [request EXCEPT !.token_usage = usage,
                                    !.saved_usage = saved]
     IN  chat' = [chat EXCEPT
                    !.usage = IF saved THEN <<usage>> ELSE @,
                    !.requests[r] =
                       IF can_use_tokens(request.token_usage,
                                         request.user_tokens + ResponseReserve,
                                         chat.now)
                       THEN [checked EXCEPT !.pc = "user message"]
                       ELSE Respond(checked, 429)]
  /\ UNCHANGED OtherVariablesOfChat

\* The user's ChatMessage is created and add_tokens(user_tokens) saves the
\* instance.
SaveUserMessage(r) ==
  /\ chat.requests[r].pc = "user message"
  /\ LET request == chat.requests[r]
         usage == add_tokens(request.token_usage, request.user_tokens,
                             chat.now)
     IN  chat' = [chat EXCEPT
                    !.messages =
                       Append(@, [conversation |-> request.conversation,
                                  role |-> "user",
                                  tokens_used |-> request.user_tokens,
                                  request |-> r]),
                    !.usage = <<usage>>,
                    !.requests[r] = [request EXCEPT !.pc = "generate",
                                                    !.token_usage = usage,
                                                    !.saved_usage = TRUE]]
  /\ UNCHANGED OtherVariablesOfChat

\* generate_ai_response returns its text and the tokens it used, or raises
\* and the request ends with 500.
GenerateResponse(r) ==
  /\ chat.requests[r].pc = "generate"
  /\ \/ \E response_tokens \in ResponseTokens :
          chat' = [chat EXCEPT
                     !.requests[r] =
                        [@ EXCEPT !.pc = "assistant message",
                                  !.response_tokens = response_tokens]]
     \/ chat' = [chat EXCEPT !.requests[r] = Respond(@, 500)]
  /\ UNCHANGED OtherVariablesOfChat

\* The assistant's ChatMessage is created, add_tokens(response_tokens)
\* saves the instance, the conversation is retitled when it holds two
\* messages, and the response is sent.
SaveAssistantMessage(r) ==
  /\ chat.requests[r].pc = "assistant message"
  /\ LET request == chat.requests[r]
         usage == add_tokens(request.token_usage, request.response_tokens,
                             chat.now)
         messages == Append(chat.messages,
                            [conversation |-> request.conversation,
                             role |-> "assistant",
                             tokens_used |-> request.response_tokens,
                             request |-> r])
         count == Cardinality({i \in DOMAIN messages :
                                 messages[i].conversation = request.conversation})
     IN  chat' = [chat EXCEPT
                    !.messages = messages,
                    !.usage = <<usage>>,
                    !.conversations[request.conversation].title =
                       IF count = 2 THEN Min(request.message, TitleLength)
                       ELSE @,
                    !.requests[r] = Respond(request, 200)]
  /\ UNCHANGED OtherVariablesOfChat

\* A period of 30 days passes.
MonthPasses ==
  /\ chat.now < MaxMonths
  /\ chat' = [chat EXCEPT !.now = @ + 1]
  /\ UNCHANGED OtherVariablesOfChat

\* The chat tables are empty and no request has arrived.
ChatInit ==
  /\ places = [t \in {Johannesburg, Pretoria} |-> <<>>]
  /\ HAS_VALIDATORS = FALSE
  /\ events = <<>>
  /\ phase = [c \in Callers |-> "idle"]
  /\ dry_run = [c \in Callers |-> FALSE]
  /\ venues = [c \in Callers |-> <<>>]
  /\ consumed = [c \in Callers |-> 0]
  /\ counts = [c \in Callers |-> ZeroCounts]
  /\ sanitized = [c \in Callers |-> NoRecord]
  /\ found = [c \in Callers |-> 0]
  /\ solo = [c \in Callers |-> TRUE]
  /\ fresh = [c \in Callers |-> TRUE]
  /\ last = NoStep
  /\ call = NoCall
  /\ http = NoRequest
  /\ chat = [now |-> 0, conversations |-> <<>>, messages |-> <<>>,
             usage |-> <<>>, requests |-> [r \in Requests |-> NoChatRequest]]

ChatNext ==
  \/ \E r \in Requests : SendMessage(r)
  \/ \E r \in Requests : GetUsage(r)
  \/ \E r \in Requests : CheckLimit(r)
  \/ \E r \in Requests : SaveUserMessage(r)
  \/ \E r \in Requests : GenerateResponse(r)
  \/ \E r \in Requests : SaveAssistantMessage(r)
  \/ MonthPasses

ChatSpec == ChatInit /\ [][ChatNext]_vars

(***************************************************************************)
(* Properties                                                              *)
(***************************************************************************)

NonKeyFields == {"title", "venue_name", "description", "city", "address",
                 "category", "event_url", "image_url", "latitude",
                 "longitude", "source", "start_date", "raw_payload"}

\* The sanitized form of the record the latest step consumed.
LastSanitized == sanitize_event_data(last.venue, HAS_VALIDATORS)

LastSourceId == LastSanitized["source_id"]

\* The latest step consumed a record (of a run that is no dry run when
\* stored is asked for) and its sanitation raised nothing.
LastSanitizedOk ==
  last.caller # "none" /\ sanitize_event_data_raises(last.venue) = "none"

\* The latest step wrote the record through update_or_create.
LastStored ==
  LastSanitizedOk /\ ~last.dry_run /\ last.exc = "none"
  /\ last.result \in {"created", "updated"}

Total(c) == c.created + c.updated + c.skipped + c.errors

\* C1: at every reachable state of storage, under any interleaving of the
\* admin view's and the command's runs, at most one stored Event carries a
\* given source_id: a create of a key that is already stored adds no row.
C1_UniqueSourceId ==
  \A i, j \in DOMAIN events :
     events[i]["source_id"] = events[j]["source_id"] => i = j

\* C1 witness: a create was attempted for a key another run had stored
\* since the get, and the constraint rejected it.
C1_Witness ==
  /\ last.conflict
  /\ last.exc = "IntegrityError"
  /\ Cardinality(Matching(events, LastSourceId)) = 1

\* C2 (as claimed): a run that overlaps no other run, is no dry run and
\* starts on storage holding none of its keys never tallies an update,
\* because a later record with the source_id of an earlier one is dropped;
\* and the row of such a key holds the first occurrence's title.
C2_BatchDeduplicatedKeepingFirst ==
  \A c \in Callers :
     (phase[c] = "done" /\ ~dry_run[c] /\ solo[c] /\ fresh[c]
        /\ last.caller = c)
     => /\ counts[c].updated = 0
        /\ \A i, j \in DOMAIN venues[c] :
              (i < j /\ venues[c][i]["source_id"] = venues[c][j]["source_id"]
                 /\ counts[c].created = 1 /\ counts[c].errors = 0
                 /\ counts[c].skipped = 0)
              => \E k \in DOMAIN events :
                    /\ events[k]["source_id"] = venues[c][i]["source_id"]
                    /\ events[k]["title"] =
                         clean_title(venues[c][i]["title"])

\* C3: in a run that overlaps no other run, a record that reaches storage
\* is tallied created when no row had its source_id and updated when one
\* had; either way exactly one row has the source_id afterwards, and its
\* title is the sanitized title of the record just ingested.
C3_ReingestionUpdates ==
  (LastStored /\ solo[last.caller])
  => /\ last.pk = 0 => last.result = "created"
     /\ last.pk # 0 => last.result = "updated"
     /\ Cardinality(Matching(events, LastSourceId)) = 1
     /\ \A k \in Matching(events, LastSourceId) :
           events[k]["title"] = clean_title(Get(last.venue, "title", <<>>))

\* C3 witness: one run created the key from the venue titled "A"; a later
\* run, after the first had finished, updated it from the venue titled "B".
C3_Witness ==
  /\ LastStored /\ solo[last.caller]
  /\ last.result = "updated"
  /\ last.venue = VenueA2
  /\ counts[last.caller].created = 0
  /\ \E c \in Callers \ {last.caller} :
        /\ phase[c] = "done" /\ venues[c] = <<VenueA>>
        /\ counts[c].created = 1
  /\ Len(events) = 1
  /\ events[1]["title"] = <<"B">>

\* C4 (as claimed): a uniqueness violation raised by the upsert is tallied
\* as skipped by either caller.
C4_UniqueViolationIsSkipped ==
  (last.exc = "IntegrityError" /\ last.conflict) => last.result = "skipped"

\* C5 (as claimed): a record whose sanitized form has no source_id, or an
\* empty one, is tallied as skipped.
C5_NoSourceIdIsSkipped ==
  (LastSanitizedOk /\ Falsy(LastSourceId)) => last.result = "skipped"

C7_TallyAccounting ==
  \A c \in Callers :
     /\ Total(counts[c]) = consumed[c]
     /\ consumed[c] <= Len(venues[c])

\* C7 witness: a finished run of two records that counted one record as
\* skipped and one under another counter.
C7_Witness ==
  \E c \in Callers :
     /\ phase[c] = "done"
     /\ consumed[c] = 2
     /\ counts[c].skipped = 1
     /\ counts[c].created + counts[c].errors = 1

\* C8: no step of a dry run changes the stored events.
C8_DryRunLeavesStorage ==
  [][\A c \in Callers :
        (dry_run[c] /\ Active(c)
           /\ (consumed'[c] # consumed[c] \/ phase'[c] # phase[c]))
        => events' = events]_vars

\* C8 witness: a dry run finished over a batch one of whose keys was already
\* stored, having tallied a record as created, and no other run overlapped.
C8_Witness ==
  \E c \in Callers :
     /\ dry_run[c] /\ phase[c] = "done"
     /\ solo[c] /\ ~fresh[c]
     /\ counts[c].created >= 1
     /\ last.caller = c

\* C9 (as claimed): in a dry run a record without source_id is tallied as
\* skipped, only a record with one is tallied as created, and nothing is
\* tallied as updated.
C9_DryRunTalliesFollowTheSteps ==
  /\ (LastSanitizedOk /\ last.dry_run)
       => last.result = (IF Falsy(LastSourceId) THEN "skipped" ELSE "created")
  /\ \A c \in Callers : dry_run[c] => counts[c].updated = 0

\* C10: after an update through ingestion the row of the source_id holds,
\* in every non-key field, the value of the new sanitized record, or the
\* default of the field when the record lacks it; the row is the one the
\* get found, and its source_id is the record's.
C10_UpdateReplacesEveryField ==
  (LastStored /\ last.result = "updated")
  => /\ Matching(events, LastSourceId) # {}
     /\ last.pk # 0 => Matching(events, LastSourceId) = {last.pk}
     /\ \A k \in Matching(events, LastSourceId) :
           /\ DOMAIN events[k] = NonKeyFields \cup {"source_id"}
           /\ \A f \in NonKeyFields :
                 events[k][f] =
                   Get(LastSanitized, f,
                       IF f = "city" THEN Johannesburg
                       ELSE ModelFieldDefaults[f])

\* C10 witness: a row created from the complete venue was updated from the
\* venue that lacks most keys, and holds the defaults in their place.
C10_Witness ==
  /\ LastStored /\ last.result = "updated"
  /\ last.venue = VenueA2
  /\ venues[last.caller] = <<VenueA, VenueA2>>
  /\ solo[last.caller] /\ fresh[last.caller]
  /\ counts[last.caller].created = 1
  /\ events[1]["venue_name"] = <<>>
  /\ events[1]["latitude"] = None
  /\ events[1]["city"] = Pretoria

\* The latest direct call was sanitize_event_data and it returned.
SanitizeReturned == call.fn = "sanitize_event_data" /\ call.raised = "none"

\* s holds a tag-like substring <...>.
HasTag(s) ==
  \E i \in DOMAIN s : s[i] = "<" /\ TagEnd(SubSeq(s, i, Len(s))) > 0

EndsWith(s, p) ==
  Len(s) >= Len(p) /\ SubSeq(s, Len(s) - Len(p) + 1, Len(s)) = p

\* C11 (as claimed): sanitize_event_data applied to what it returned
\* returns it unchanged, field by field.
C11_SanitizeIsIdempotent ==
  (SanitizeReturned /\ call.pass = 2) => call.returned = call.given

\* C12 (as claimed): what clean_text returns holds no tag-like substring
\* <...>, whatever the text and the max_length.
C12_CleanTextHasNoMarkup ==
  call.fn = "clean_text" => ~HasTag(call.returned)

\* C13 (as claimed): with a max_length given, clean_text returns at most
\* max_length characters, and exactly max_length ending with "..." when the
\* cleaned text is longer than max_length.
C13_TruncationIsExact ==
  (call.fn = "clean_text" /\ call.max_length # 0)
  => /\ Len(call.returned) <= call.max_length
     /\ Len(clean_text(call.text, 0)) > call.max_length
          => /\ Len(call.returned) = call.max_length
             /\ EndsWith(call.returned, Ellipsis)

\* C14: a field other than city is a key of what sanitize_event_data
\* returns exactly when it is a key of the record given; city is a key of
\* it exactly when city or address is a key of the record given.
C14_FieldPresencePreserved ==
  SanitizeReturned
  => /\ \A f \in Fields \ {"city"} :
           f \in DOMAIN call.returned <=> f \in DOMAIN call.given
     /\ "city" \in DOMAIN call.returned
          <=> ("city" \in DOMAIN call.given \/ "address" \in DOMAIN call.given)
     /\ DOMAIN call.returned \subseteq Fields

\* C14 witness: a record with an address and a title and nothing else came
\* back with the city of the address added and no other key.
C14_Witness ==
  /\ SanitizeReturned /\ call.pass = 1
  /\ DOMAIN call.given = {"address", "title"}
  /\ DOMAIN call.returned = {"address", "title", "city"}
  /\ call.returned["city"] = Johannesburg

PassThroughFields == {"raw_payload", "source", "source_id", "latitude",
                      "longitude", "image_url"}

\* C15: raw_payload, source, source_id, latitude, longitude and image_url
\* come out of sanitize_event_data with the values they went in with, and
\* the mapping given is afterwards what it was.
C15_PassThroughUnmodified ==
  SanitizeReturned
  => /\ \A f \in PassThroughFields \cap DOMAIN call.given :
           call.returned[f] = call.given[f]
     /\ call.data = call.given

\* C15 witness: a record with every field was sanitized; its title and
\* its event_url changed, its image_url, which is no valid URL, did not.
C15_Witness ==
  /\ SanitizeReturned /\ call.pass = 1
  /\ DOMAIN call.given = Fields
  /\ call.returned["title"] # call.given["title"]
  /\ call.returned["event_url"] # call.given["event_url"]
  /\ call.returned["image_url"] = <<"i", ".", "c", "o", "/", "x", " ", "y">>
  /\ call.data["title"] = call.given["title"]

\* The city given to the call and the city it came back with, where the
\* call had a city to return: standardize_city_name that returned, or
\* sanitize_event_data of a record with a city or an address.
HasCityOutcome ==
  \/ call.fn = "standardize_city_name" /\ call.raised = "none"
  \/ SanitizeReturned /\ "city" \in DOMAIN call.returned

CityGiven ==
  IF call.fn = "standardize_city_name" THEN call.city
  ELSE IF "city" \in DOMAIN call.given THEN call.given["city"]
  ELSE None

CityReturned ==
  IF call.fn = "standardize_city_name" THEN call.returned
  ELSE call.returned["city"]

IsTitleCasedFallback(given, returned) ==
  IsStr(given) /\ given # <<>> /\ returned = Title(Strip(given))

C17_AliasCoverage ==
  call.fn = "standardize_city_name"
  => \A i \in DOMAIN CITY_NAME_MAPPINGS :
        call.city \in AliasVariants(i)
        => call.raised = "none" /\ call.returned = CITY_NAME_MAPPINGS[i][2]

\* C17 witness: the alias "jo'burg" upper-cased gave Johannesburg.
C17_Witness ==
  /\ call.fn = "standardize_city_name"
  /\ call.city = <<"J", "O", "'", "B", "U", "R", "G">>
  /\ call.returned = Johannesburg

\* C18 (as claimed): parse_date raises for no input and returns a datetime
\* or the default given.
C18_ParseDateNeverRaises ==
  call.fn = "parse_date"
  => /\ call.raised = "none"
     /\ IsDatetime(call.returned) \/ call.returned = call.default

\* C19 (as claimed): a number of magnitude above 10^12, positive or
\* negative, is parsed as the number divided by 1000 is, that is as
\* milliseconds; a number of magnitude up to 10^12 is taken as seconds.
C19_MagnitudeDecidesMilliseconds ==
  (call.fn = "parse_date" /\ IsThousands(call.date_input))
  => LET m == call.date_input[2]
     IN  IF m > 1000000000 \/ m < -1000000000
         THEN call.returned = TimestampDatetime(m, 0)
         ELSE call.returned =
                (IF m < MinTimestampThousands \/ m > MaxTimestampThousands
                 THEN call.default ELSE TimestampDatetime(m, 3))

\* The URL is one of scheme http or https with a host.
IsHttpUrl(url) ==
  /\ UrlScheme(url) \in {<<"h", "t", "t", "p">>, <<"h", "t", "t", "p", "s">>}
  /\ UrlNetloc(url) # <<>>

\* The text has a space inside, or a scheme of its own that is neither
\* http nor https.
IsNoHttpUrlText(url) ==
  /\ IsStr(url)
  /\ \/ \E i \in DOMAIN Strip(url) : Strip(url)[i] = " "
     \/ /\ UrlScheme(Strip(url)) # <<>>
        /\ UrlScheme(Strip(url)) \notin {<<"h", "t", "t", "p">>,
                                          <<"h", "t", "t", "p", "s">>}

\* C20 (as claimed): validate_and_clean_url returns the empty string or a
\* URL of scheme http or https with a host, and the empty string for a text
\* that is no such URL, with the validators library or without it.
C20_UrlEmptyOrHttp ==
  call.fn = "validate_and_clean_url"
  => /\ call.returned = <<>> \/ IsHttpUrl(call.returned)
     /\ IsNoHttpUrlText(call.url) => call.returned = <<>>

\* C21 (as claimed): a GET of the event list without a page_size parameter
\* (and without a page parameter), when more than 20 events are stored,
\* returns exactly 20 results and a non-null next link.
C21_DefaultPageSizeIsTwenty ==
  (/\ call.fn = "list_events"
   /\ call.page_size_param.kind = "absent"
   /\ call.page_param.kind = "absent"
   /\ call.count > 20)
  => (/\ call.response.status = 200
      /\ call.response.results = 20
      /\ call.response.next)

\* C28 (as claimed): for every total_pages >= 1 and every current_page in
\* 1..total_pages, the list _get_page_numbers returns with window = 2
\* contains 1, total_pages and current_page, and its entries other than
\* None are strictly increasing.
C28_PageNumbersIncludeEnds ==
  call.fn = "_get_page_numbers" =>
    /\ \E i \in DOMAIN call.returned : call.returned[i] = 1
    /\ \E i \in DOMAIN call.returned : call.returned[i] = call.total_pages
    /\ \E i \in DOMAIN call.returned : call.returned[i] = call.current_page
    /\ \A i, j \in DOMAIN call.returned :
         (i < j /\ call.returned[i] # NoPage /\ call.returned[j] # NoPage)
         => call.returned[i] < call.returned[j]

\* The positions in CITY_NAME_MAPPINGS of the aliases that are substrings
\* of s.
AliasesIn(s) ==
  {i \in DOMAIN CITY_NAME_MAPPINGS : Contains(s, CITY_NAME_MAPPINGS[i][1])}

\* s is an alias of CITY_NAME_MAPPINGS.
IsAlias(s) == \E i \in DOMAIN CITY_NAME_MAPPINGS : CITY_NAME_MAPPINGS[i][1] = s

C25_AddressExtractorsAgree ==
  (call.fn = "extract_city_from_address" /\ call.sanitation # None)
  => call.google_places = call.sanitation

\* The venues of the first n per-type answers, one list after the other.
Searched(typeResults, n) == Concat(SubSeq(typeResults, 1, n))

\* Position p of list is the first one with its source_id.
IsFirstAppearance(list, p) ==
  \A q \in 1..(p - 1) : list[q]["source_id"] # list[p]["source_id"]

\* C26: search_event_venues returns at most max_results venues with
\* pairwise distinct source_id values: the k-th venue returned is the k-th
\* first appearance of a source_id among the venues of the searches issued,
\* and none is left out below max_results; a search is issued only while
\* fewer than max_results venues have been collected, and no search is
\* left out while that is so.
C26_SearchReturnsFirstAppearances ==
  call.fn = "search_event_venues" =>
    LET all == Searched(call.typeResults, call.searches)
        firsts == {p \in DOMAIN all : IsFirstAppearance(all, p)}
    IN  /\ Len(call.returned) <= call.max_results
        /\ \A i, j \in DOMAIN call.returned :
             i # j => call.returned[i]["source_id"] # call.returned[j]["source_id"]
        /\ Len(call.returned) = Min(call.max_results, Cardinality(firsts))
        /\ \A k \in DOMAIN call.returned :
             \E p \in firsts :
                /\ call.returned[k] = all[p]
                /\ Cardinality({q \in firsts : q < p}) = k - 1
        /\ call.searches <= Len(call.typeResults)
        /\ \A n \in 1..call.searches :
             Len(Searched(call.typeResults, n - 1)) < call.max_results
        /\ call.searches < Len(call.typeResults)
           => Len(all) >= call.max_results

\* C26 witness: the place found under the first two venue types is returned
\* once, as the first type found it, and the third type was not searched
\* because two venues had been collected.
C26_Witness ==
  /\ call.fn = "search_event_venues"
  /\ call.max_results = 2
  /\ Len(call.typeResults) = 3
  /\ call.searches = 2
  /\ call.returned = <<[source_id |-> <<"a">>, category |-> 1]>>

\* The attempts before the latest one.
EarlierAttempts == 1..(Len(http.log) - 1)

\* Every attempt of the call so far was answered with a response of kinds.
AllAttemptsIn(kinds) == \A i \in DOMAIN http.log : http.log[i] \in kinds

\* The outcome of the latest attempt is one of kinds.
LatestAttemptIn(kinds) ==
  http.log # <<>> /\ http.log[Len(http.log)] \in kinds

\* What C27 names as retried: a 429 and the exceptions of the transport.
TransportFailures == {"429", "ConnectionError", "Timeout"}

\* C27 (as claimed): _make_request makes at most max_retries HTTP attempts;
\* it returns the JSON body on the first status 200, returns None without a
\* further attempt on a status other than 200 and 429, makes a further
\* attempt only after a 429 or a transport exception, and returns None once
\* max_retries attempts are used up.
C27_RetriesOnlyAfter429OrTransportException ==
  http.state # "idle" =>
    /\ Len(http.log) <= http.max_retries
    /\ \A i \in EarlierAttempts : http.log[i] \in TransportFailures
    /\ http.state = "running"
       => /\ Len(http.log) < http.max_retries
          /\ AllAttemptsIn(TransportFailures)
    /\ http.state # "running"
       => /\ http.state = "returned"
          /\ http.result = "JSON"
             <=> LatestAttemptIn({"200 JSON", "200 no JSON"})
          /\ http.result = "None"
             <=> \/ LatestAttemptIn({"403", "500"})
                 \/ /\ Len(http.log) = http.max_retries
                    /\ AllAttemptsIn(TransportFailures)

\* What _make_request makes a further attempt after: a 429 and every
\* requests.RequestException, the decode error of a body that is no JSON
\* included.
RetriedResponses == {"429", "ConnectionError", "Timeout", "200 no JSON"}

\* C27 (amended): _make_request makes at most max_retries HTTP attempts; it
\* returns the JSON body on the first status 200 whose body decodes as
\* JSON, returns None without a further attempt on a status other than 200
\* and 429, makes a further attempt only after a 429, a transport exception
\* or a status 200 whose body does not decode, and returns None once
\* max_retries attempts are used up.
C27_RetriesOnlyAfter429OrRequestException ==
  http.state # "idle" =>
    /\ Len(http.log) <= http.max_retries
    /\ \A i \in EarlierAttempts : http.log[i] \in RetriedResponses
    /\ http.state = "running"
       => /\ Len(http.log) < http.max_retries
          /\ AllAttemptsIn(RetriedResponses)
    /\ http.state # "running"
       => /\ http.state = "returned"
          /\ http.result = "JSON" <=> LatestAttemptIn({"200 JSON"})
          /\ http.result = "None"
             <=> \/ LatestAttemptIn({"403", "500"})
                 \/ /\ Len(http.log) = http.max_retries
                    /\ AllAttemptsIn(RetriedResponses)

\* C27 witness: with max_retries = 3, a 429, a timeout and a status 200
\* whose body is no JSON used up the attempts and None was returned.
C27_Witness ==
  /\ http.state = "returned"
  /\ http.max_retries = 3
  /\ http.log = <<"429", "Timeout", "200 no JSON">>
  /\ http.result = "None"

\* The source identifiers of the batch of caller c.
BatchSourceIds(c) ==
  {s \in {venues[c][i]["source_id"] : i \in DOMAIN venues[c]} : ~Falsy(s)}

\* The source identifiers both batches hold.
SharedSourceIds == BatchSourceIds("admin") \cap BatchSourceIds("command")

ReconcilerResult(c, venue_data, dry, exc, created) ==
  IF BeforeStorage(c, venue_data, dry, HAS_VALIDATORS) # "upsert"
  THEN BeforeStorage(c, venue_data, dry, HAS_VALIDATORS)
  ELSE IF exc # "none" THEN OnException(c, exc)
  ELSE IF created THEN "created" ELSE "updated"

\* C23 (as claimed): for the record, the dry_run value and the storage
\* outcome of every step either caller takes, the admin view's code and the
\* command's code tally the record under the same counter and hand the same
\* defaults to update_or_create.
C23_CallersAreOneReconciler ==
  last.caller # "none"
  => /\ ReconcilerResult("admin", last.venue, last.dry_run, last.exc,
                         last.result = "created")
        = ReconcilerResult("command", last.venue, last.dry_run, last.exc,
                           last.result = "created")
     /\ Tally("admin", ZeroCounts, last.result)
        = Tally("command", ZeroCounts, last.result)
     /\ LastSanitizedOk
        => admin_defaults(LastSanitized) = command_defaults(LastSanitized)

\* C29 (as claimed): while no period of 30 days has passed, so that every
\* request so far falls into one reset period, the tokens_used of the
\* user's UserTokenUsage row is at most its monthly_limit.
C29_TokenLimitNeverExceeded ==
  chat.now = 0
  => \A i \in DOMAIN chat.usage :
        chat.usage[i].tokens_used <= chat.usage[i].monthly_limit

\* C30 (as claimed): a request answered with 429 has created no
\* ChatConversation and no ChatMessage and has not saved the user's
\* UserTokenUsage row, with or without a conversation_id.
C30_RejectionChangesNothing ==
  \A r \in Requests :
     chat.requests[r].status = 429
     => /\ ~chat.requests[r].created_conversation
        /\ ~chat.requests[r].saved_usage
        /\ \A i \in DOMAIN chat.messages : chat.messages[i].request # r

=============================================================================
